---- MODULE Spec2Model ----
(***************************************************************************)
(* Model of the event interaction rules of the events application:         *)
(*   - the Fastify handlers of backend/src/routes/interactions.ts over the *)
(*     tables of backend/src/db/schema.ts (attendance, ratings, comments,  *)
(*     images), each handler cut at its awaits;                            *)
(*   - the client's going toggle of frontend/app/event/[id].tsx;           *)
(*   - the feed screens' fetch functions and the feed query.               *)
(* Time is a tick counter; one event is fixed, with its start, its end and *)
(* the length of the interaction window given in ticks.                    *)
(***************************************************************************)
EXTENDS Integers, Sequences, FiniteSets, TLC

\* ------------------------------------------------------------------ bounds
StartsAt == 1          \* events.starts_at of the event, in ticks
EndsAt == 2            \* events.ends_at of the event, in ticks (> StartsAt)
MaxRows == 1           \* cap on the comment rows and on the image rows of one user
HoursPerTick == 84     \* length of a clock tick, in hours

\* ------------------------------------------------------- program constants
INTERACTION_WINDOW_HOURS == 168
MAX_IMAGES_PER_USER == 5

\* INTERACTION_WINDOW_HOURS * 60 * 60 * 1000 milliseconds, in ticks of the clock
WindowTicks == INTERACTION_WINDOW_HOURS \div HoursPerTick

\* the clock runs from before the start to after the end of the window
MaxTime == EndsAt + WindowTicks + 1

Users == {"alice", "org"}
organizerId == "org"            \* events.organizer_id of the event
Slots == {"r1", "r2"}           \* requests the server has in flight
Presses == {"p1", "p2"}         \* presses of the going button being handled
ContentKinds == {"comment", "image", "rate"}
\* request bodies of POST ratings, in hundredths of a star
RatingInputs == {333, 350, 500}

VARIABLES
    now,        \* the wall clock (new Date()), in ticks
    going,      \* event_going: number of rows per user for the event
    ratings,    \* event_ratings: per user, the stored values (tenths) of the rows
    comments,   \* event_comments: number of rows per user
    images,     \* event_images: number of rows per user
    reqs,       \* per slot, the handler invocation in flight or its response
    \* the event screen of the client (EventDetailScreen)
    viewer,         \* useAuth().user of the screen
    clientIsGoing,  \* useState isGoing
    renderAt,       \* the clock value read by the last render of the screen
    toggles,        \* per press of the going button, the await it is at
    toast,          \* the last toast shown
    \* the window state of an event, as the code derives it from the clock
    evStart,        \* events.starts_at of the event looked at
    evEnd,          \* events.ends_at of the event looked at
    winState,       \* the window states whose condition holds at the clock value
    srvOpen,        \* isInInteractionWindow(evEnd) at the clock value
    cliOpen,        \* canInteract at the clock value
    \* the feed screens (HomeScreen, PastEventsScreen)
    feedScreen,     \* which screen is mounted
    selectedGenre,  \* the genre filter of HomeScreen ("" for none)
    refreshing,     \* the refreshing state of the screen
    isFetchingRef,  \* isFetchingRef.current of HomeScreen
    abortControllerRef, \* the fetch whose controller the ref holds, 0 for null
    fetches,        \* per call of the fetch function: the fetch it started
    initiated,      \* calls of the fetch function so far
    events,         \* the displayed list: the fetch that set it
    \* the general feed query
    evTable,        \* the rows of the events table
    feedQuery,      \* the last feed request: its path and filters
    dbRows,         \* the rows the query of that request selected
    feedRows,       \* the rows in the response of that request
    \* the reads of one event and its dependent rows
    rStatus,        \* events.status of the event
    rGoing,         \* the number of event_going rows of the event
    rComments,      \* the number of event_comments rows of the event
    rImages,        \* the number of event_images rows of the event
    rRatings,       \* the event_ratings rows of the event
    rWritten,       \* a rating row was updated or deleted since the start
    avgRating,      \* useState avgRating of the event screen: sum and number of rows
    rReply,         \* the last reply of a read
    \* the image uploads of one uploader for one event
    imgRows,        \* the number of event_images rows of the pair
    userImageCount, \* per screen of the uploader: its userImageCount state
    upPc,           \* per upload path: where its upload in progress stands
    upReply,        \* the last outcome of an upload
    upOverlap,      \* an upload passed its quota test while another was in progress
    \* resolveStorageUrl and its cache
    nowS,           \* Date.now(), in seconds
    storageUrlCache,\* per cache key: the entry, NoEntry when there is none
    sigCalls,       \* createSignedUrl calls made so far
    calls,          \* per caller: its resolveStorageUrl call in progress
    sResult,        \* the last call that settled: its input and outcome
    \* the viewer's location on the home screen (HomeScreen.loadLocation)
    locationLoadedRef, \* locationLoadedRef.current
    location,       \* useState location
    locPc,          \* the await the call of loadLocation is at
    locStore,       \* AsyncStorage: the stored location item and selected city
    locOutcome,     \* how the last call of loadLocation ended
    locCalls,       \* the calls of loadLocation made
    locTrace,       \* what the branches of the resolution met, the prompts made
    \* the ranking of a fetched list by distance
    rankViewer,     \* the viewer's coordinate
    rankInput,      \* the rows of the query, in the order the query gave
    ranked,         \* the list after the last sort: position in the input and distance
    rankBy,         \* who ranks: the home screen or GET /api/events
    rankRuns,       \* the rankings of the input made
    \* the event and the rows that reference it, updated and deleted
    oEvent,         \* the events row: exists, organizer, title, ended or not
    oProfiles,      \* the ids of the profiles rows
    oGoing,         \* the users with an event_going row of the event
    oComments,      \* the users with an event_comments row of the event
    oImages,        \* the users with an event_images row of the event
    oHandler,       \* the admin hard delete or ban in progress and its next delete
    oInsert,        \* the inserting request in progress
    oRaced,         \* a row was inserted while a multi-step deletion was running
    \* the attendee list of the event, on the server and on the attendee screen
    aGoing,         \* the users with an event_going row of the event
    aReply,         \* the last reply of GET /api/events/:id/attendees
    aScreen,        \* the attendee screen: who opened it, loading, the list shown
    \* the rating value under validation
    rateInput       \* body.rating of the requests, in hundredths

clientVars == <<viewer, clientIsGoing, renderAt, toggles, toast>>
windowVars == <<evStart, evEnd, winState, srvOpen, cliOpen>>
feedVars == <<feedScreen, selectedGenre, refreshing, isFetchingRef,
              abortControllerRef, fetches, initiated, events>>
queryVars == <<evTable, feedQuery, dbRows, feedRows>>
readVars == <<rStatus, rGoing, rComments, rImages, rRatings, rWritten, avgRating,
              rReply>>
imageVars == <<imgRows, userImageCount, upPc, upReply, upOverlap>>
storageVars == <<nowS, storageUrlCache, sigCalls, calls, sResult>>
\* the variables of the parts after the reads
locVars == <<locationLoadedRef, location, locPc, locStore, locOutcome, locCalls,
            locTrace>>
rankVars == <<rankViewer, rankInput, ranked, rankBy, rankRuns>>
writeVars == <<oEvent, oProfiles, oGoing, oComments, oImages, oHandler, oInsert,
               oRaced>>
attVars == <<aGoing, aReply, aScreen>>
moreVars == <<attVars, rateInput>>
laterVars == <<locVars, rankVars, writeVars, moreVars>>
restVars == <<imageVars, storageVars, laterVars>>
otherVars == <<windowVars, feedVars, queryVars, readVars, restVars>>
nonServerVars == <<clientVars, otherVars>>
serverVars == <<going, ratings, comments, images, reqs>>
vars == <<now, serverVars, clientVars, otherVars>>

\* a handler invocation: the route (kind), the session user, the place in the
\* handler (pc), the rating of the body (val), the handler's local isGoing,
\* the clock value its window check read (at) and its reply (resp)
Idle == [kind |-> "none", user |-> "alice", pc |-> "idle", val |-> 0,
         isGoing |-> FALSE, at |-> 0, resp |-> "none"]

Done(r, resp) == [r EXCEPT !.pc = "done", !.resp = resp]

\* ---------------------------------------------------------- pure functions

\* isInInteractionWindow(eventEndsAt), with now read when it is called
isInInteractionWindowNeverCloses(eventEndsAt, t) == t >= eventEndsAt
isInInteractionWindow(eventEndsAt, t) ==
    t >= eventEndsAt /\ t <= eventEndsAt + WindowTicks

\* Math.round(x) for x = r / 10, r a non-negative number of hundredths
RoundTenths(r) == (r + 5) \div 10

\* validateRating: rating >= 1.0 && rating <= 5.0 && Math.round(rating*10)/10 === rating
validateRatingRangeOnly(r) == r >= 100 /\ r <= 500
validateRating(r) == r >= 100 /\ r <= 500 /\ RoundTenths(r) * 10 = r

\* rating.toString() stored in numeric(2,1): the value rounded to one decimal
StoredRating(r) == RoundTenths(r)

\* ------------------------------------------------------------ the database

\* insert into event_ratings under the unique index (event_id, user_id):
\* the insert throws when the pair already has a row
InsertRatingNoIndex(tbl, u, v) == [ok |-> TRUE, tbl |-> [tbl EXCEPT ![u] = Append(@, v)]]
InsertRating(tbl, u, v) ==
    IF Len(tbl[u]) >= 1
    THEN [ok |-> FALSE, tbl |-> tbl]
    ELSE [ok |-> TRUE, tbl |-> [tbl EXCEPT ![u] = Append(@, v)]]

\* insert into event_going under the unique index (event_id, user_id)
InsertGoingNoIndex(tbl, u) == [ok |-> TRUE, tbl |-> [tbl EXCEPT ![u] = @ + 1]]
InsertGoing(tbl, u) ==
    IF tbl[u] >= 1
    THEN [ok |-> FALSE, tbl |-> tbl]
    ELSE [ok |-> TRUE, tbl |-> [tbl EXCEPT ![u] = @ + 1]]

\* ------------------------------------------------------------------- state

InitServer ==
    /\ now = 0
    /\ going = [u \in Users |-> 0]
    /\ ratings = [u \in Users |-> <<>>]
    /\ comments = [u \in Users |-> 0]
    /\ images = [u \in Users |-> 0]
    /\ reqs = [s \in Slots |-> Idle]

\* the event screen before it is mounted
NoClient ==
    /\ viewer = "alice"
    /\ clientIsGoing = FALSE
    /\ renderAt = 0
    /\ toggles = [p \in Presses |-> "idle"]
    /\ toast = "none"

\* no event is looked at
NoWindow ==
    /\ evStart = 0 /\ evEnd = 0
    /\ winState = {} /\ srvOpen = FALSE /\ cliOpen = FALSE

\* the filters of a feed request; "" and <<>> stand for a filter not given
NoRequest ==
    [path |-> "none", region |-> "", city |-> "", genre |-> "",
     search |-> <<>>, organizerId |-> ""]

\* no feed screen is mounted
NoFeed ==
    /\ feedScreen = "none" /\ selectedGenre = "" /\ refreshing = FALSE
    /\ isFetchingRef = FALSE /\ abortControllerRef = 0
    /\ fetches = <<>> /\ initiated = 0 /\ events = <<>>

\* no feed request is made
NoQuery ==
    /\ evTable = <<>> /\ feedQuery = NoRequest /\ dbRows = {} /\ feedRows = {}

\* the reply of a read: counters are -1 and the average is 0 / 0 (null) where
\* the route reports none
NoReply ==
    [route |-> "none", caller |-> "anon", code |-> 0, status |-> "none",
     goingCount |-> -1, commentsCount |-> -1, imagesCount |-> -1,
     ratingsCount |-> -1, avgSum |-> 0, avgN |-> 0, rows |-> -1,
     target |-> ""]

\* useState<number | null>(null)
nullAvg == [sum |-> 0, n |-> 0]

\* no read is made
NoRead ==
    /\ rStatus = "none" /\ rGoing = 0 /\ rComments = 0 /\ rImages = 0
    /\ rRatings = {} /\ rWritten = FALSE /\ avgRating = nullAvg
    /\ rReply = NoReply

\* no image is uploaded
NoUploads ==
    /\ imgRows = 0 /\ userImageCount = <<>> /\ upPc = <<>>
    /\ upReply = [by |-> "none", resp |-> "none", rows |-> 0]
    /\ upOverlap = FALSE

\* resolveStorageUrl is not called
NoStorage ==
    /\ nowS = 0 /\ storageUrlCache = <<>> /\ sigCalls = 0
    /\ calls = <<>> /\ sResult = <<>>

\* loadLocation is not called
NoLocation ==
    /\ locationLoadedRef = FALSE /\ location = <<>> /\ locPc = "none"
    /\ locStore = <<>> /\ locOutcome = "none" /\ locCalls = 0
    /\ locTrace = <<>>

\* no list is ranked
NoRank ==
    /\ rankViewer = <<>> /\ rankInput = <<>> /\ ranked = <<>>
    /\ rankBy = "none" /\ rankRuns = 0

\* nothing is updated or deleted
NoWrites ==
    /\ oEvent = <<>> /\ oProfiles = {} /\ oGoing = {} /\ oComments = {}
    /\ oImages = {} /\ oHandler = <<>> /\ oInsert = <<>> /\ oRaced = FALSE

\* no attendee list is asked for
NoAttendees == aGoing = {} /\ aReply = <<>> /\ aScreen = <<>>

\* no rating value is under validation
NoRateInput == rateInput = 0

NoMore == NoAttendees /\ NoRateInput

NoLater == NoLocation /\ NoRank /\ NoWrites /\ NoMore

NoOther == NoUploads /\ NoStorage /\ NoLater

Init ==
    InitServer /\ NoClient /\ NoWindow /\ NoFeed /\ NoQuery /\ NoRead /\ NoOther

\* the clock moves forward
Tick ==
    /\ now < MaxTime
    /\ now' = now + 1
    /\ UNCHANGED <<going, ratings, comments, images, reqs, nonServerVars>>

Free(s) == reqs[s].pc \in {"idle", "done"}

\* POST /api/events/:id/going, up to the insert: session, event select,
\* own-event check
PostGoing(s, u) ==
    /\ Free(s)
    /\ LET r == [Idle EXCEPT !.kind = "going", !.user = u]
       IN reqs' = [reqs EXCEPT ![s] =
                     IF organizerId = u THEN Done(r, "own-event")
                     ELSE [r EXCEPT !.pc = "insert"]]
    /\ UNCHANGED <<now, going, ratings, comments, images, nonServerVars>>

\* POST /api/events/:id/going, the insert and the reply: a failed insert is
\* caught and logged, the reply is { success: true } either way
PostGoingInsert(s) ==
    /\ reqs[s].kind = "going" /\ reqs[s].pc = "insert"
    /\ going' = InsertGoing(going, reqs[s].user).tbl
    /\ reqs' = [reqs EXCEPT ![s] = Done(@, "ok")]
    /\ UNCHANGED <<now, ratings, comments, images, nonServerVars>>

\* DELETE /api/events/:id/going, up to the delete: session only
DeleteGoing(s, u) ==
    /\ Free(s)
    /\ reqs' = [reqs EXCEPT ![s] =
                  [Idle EXCEPT !.kind = "ungoing", !.user = u, !.pc = "delete"]]
    /\ UNCHANGED <<now, going, ratings, comments, images, nonServerVars>>

\* DELETE /api/events/:id/going, the delete of the pair's rows and the reply
DeleteGoingDelete(s) ==
    /\ reqs[s].kind = "ungoing" /\ reqs[s].pc = "delete"
    /\ going' = [going EXCEPT ![reqs[s].user] = 0]
    /\ reqs' = [reqs EXCEPT ![s] = Done(@, "ok")]
    /\ UNCHANGED <<now, ratings, comments, images, nonServerVars>>

\* POST /api/events/:id/comments, /images, /ratings, up to the attendance
\* select: session, body (validateRating for a rating), event select
PostContent(s, kind, u, val) ==
    /\ Free(s)
    /\ LET r == [Idle EXCEPT !.kind = kind, !.user = u, !.val = val]
       IN reqs' = [reqs EXCEPT ![s] =
                     IF kind = "rate" /\ ~validateRating(val) THEN Done(r, "invalid")
                     ELSE [r EXCEPT !.pc = "isGoing"]]
    /\ UNCHANGED <<now, going, ratings, comments, images, nonServerVars>>

\* the select from event_going for (event, session user) and the test of it
ContentIsGoingNotTested(s) ==
    /\ reqs[s].kind \in ContentKinds /\ reqs[s].pc = "isGoing"
    /\ reqs' = [reqs EXCEPT ![s] = [@ EXCEPT !.isGoing = (going[reqs[s].user] > 0),
                                              !.pc = "window"]]
    /\ UNCHANGED <<now, going, ratings, comments, images, nonServerVars>>
ContentIsGoing(s) ==
    /\ reqs[s].kind \in ContentKinds /\ reqs[s].pc = "isGoing"
    /\ LET r == [reqs[s] EXCEPT !.isGoing = (going[reqs[s].user] > 0)]
       IN reqs' = [reqs EXCEPT ![s] =
                     IF ~r.isGoing THEN Done(r, "not-going")
                     ELSE [r EXCEPT !.pc = "window"]]
    /\ UNCHANGED <<now, going, ratings, comments, images, nonServerVars>>

\* the interaction window check, with the clock read at this moment (kept in
\* the request as "at"); for a comment, the checks of the sanitized body
ContentWindow(s) ==
    /\ reqs[s].kind \in ContentKinds /\ reqs[s].pc = "window"
    /\ \E bodyOk \in BOOLEAN :
         LET r == [reqs[s] EXCEPT !.at = now]
         IN reqs' = [reqs EXCEPT ![s] =
                       IF ~isInInteractionWindow(EndsAt, now) THEN Done(r, "window")
                       ELSE IF r.kind = "comment" /\ ~bodyOk THEN Done(r, "invalid")
                       ELSE IF r.kind = "image" THEN [r EXCEPT !.pc = "quota"]
                       ELSE [r EXCEPT !.pc = "insert"]]
    /\ UNCHANGED <<now, going, ratings, comments, images, nonServerVars>>

\* POST images: the count of the uploader's images of the event and the
\* test against MAX_IMAGES_PER_USER, then the read of the uploaded file
ImageQuota(s) ==
    /\ reqs[s].kind = "image" /\ reqs[s].pc = "quota"
    /\ \E fileOk \in BOOLEAN :
         reqs' = [reqs EXCEPT ![s] =
                    IF images[@.user] >= MAX_IMAGES_PER_USER THEN Done(@, "quota")
                    ELSE IF ~fileOk THEN Done(@, "invalid")
                    ELSE [@ EXCEPT !.pc = "insert"]]
    /\ UNCHANGED <<now, going, ratings, comments, images, nonServerVars>>

\* POST comments: the insert into event_comments and the reply
CommentInsert(s) ==
    /\ reqs[s].kind = "comment" /\ reqs[s].pc = "insert"
    /\ comments[reqs[s].user] < MaxRows
    /\ comments' = [comments EXCEPT ![reqs[s].user] = @ + 1]
    /\ reqs' = [reqs EXCEPT ![s] = Done(@, "created")]
    /\ UNCHANGED <<now, going, ratings, images, nonServerVars>>

\* POST images: the upload to storage, the insert into event_images (no
\* constraint on the table) and the reply; a failed upload replies 500
ImageInsert(s) ==
    /\ reqs[s].kind = "image" /\ reqs[s].pc = "insert"
    /\ images[reqs[s].user] < MaxRows
    /\ \E uploadOk \in BOOLEAN :
         IF uploadOk
         THEN /\ images' = [images EXCEPT ![reqs[s].user] = @ + 1]
              /\ reqs' = [reqs EXCEPT ![s] = Done(@, "created")]
         ELSE /\ images' = images
              /\ reqs' = [reqs EXCEPT ![s] = Done(@, "failed")]
    /\ UNCHANGED <<now, going, ratings, comments, nonServerVars>>

\* POST ratings: the insert into event_ratings and the reply; a failed insert
\* replies 409 "Already rated this event"
RatingInsert(s) ==
    /\ reqs[s].kind = "rate" /\ reqs[s].pc = "insert"
    /\ LET ins == InsertRating(ratings, reqs[s].user, StoredRating(reqs[s].val))
       IN /\ ratings' = ins.tbl
          /\ reqs' = [reqs EXCEPT ![s] =
                        Done(@, IF ins.ok THEN "created" ELSE "already-rated")]
    /\ UNCHANGED <<now, going, comments, images, nonServerVars>>


\* ------------------------------------------------- the client's event screen

\* the render flags of EventDetailScreen for an event with the given start and
\* end, from the clock value t of a render
hasEndedInclusive(endsAt, t) == t >= endsAt
hasEnded(endsAt, t) == t > endsAt
isOngoing(startsAt, endsAt, t) == t >= startsAt /\ t <= endsAt
\* sevenDaysAfterEnd: setDate(getDate() + 7) on the end, seven days of 24 hours
sevenDaysAfterEnd(endsAt) == endsAt + WindowTicks
canInteract(endsAt, t) == hasEnded(endsAt, t) /\ t <= sevenDaysAfterEnd(endsAt)
\* the guards of handleRating, handleAddComment and handleUploadImage: the
\* handler goes on unless now < eventEnd or now > sevenDaysAfter
guardAllows(endsAt, t) == ~(t < endsAt) /\ ~(t > sevenDaysAfterEnd(endsAt))
\* canInteract of GET /api/profile/going: isPast, and the end plus the
\* window not before now
goingCanInteract(endsAt, t) == endsAt <= t /\ endsAt + WindowTicks >= t
goingButtonDisabled(startsAt, t) == clientIsGoing /\ t >= startsAt
\* the going button is on the screen (the event is not cancelled)
goingButtonShown(endsAt, t) == ~hasEnded(endsAt, t)

\* the screen is opened by user u: fetchEventDetail reads the user's row of
\* event_going into isGoing, and the screen renders
ClientLoad(u) ==
    /\ \A p \in Presses : toggles[p] = "idle"
    /\ viewer' = u
    /\ clientIsGoing' = (going[u] >= 1)
    /\ renderAt' = now
    /\ toast' = "none"
    /\ UNCHANGED <<now, going, ratings, comments, images, reqs, toggles, otherVars>>

\* the screen renders again
ClientRender ==
    /\ renderAt # now
    /\ renderAt' = now
    /\ UNCHANGED <<now, going, ratings, comments, images, reqs,
                   viewer, clientIsGoing, toggles, toast, otherVars>>

\* handleGoingToggle up to its first await: the button as last rendered can be
\* pressed; the handler refuses to unmark once now >= start
TogglePress(p) ==
    /\ toggles[p] = "idle"
    /\ goingButtonShown(EndsAt, renderAt) /\ ~goingButtonDisabled(StartsAt, renderAt)
    /\ IF clientIsGoing /\ now >= StartsAt
       THEN /\ toast' = "started" /\ renderAt' = now
            /\ UNCHANGED toggles
       ELSE /\ toggles' = [toggles EXCEPT ![p] = IF clientIsGoing THEN "unmark" ELSE "mark"]
            /\ UNCHANGED <<toast, renderAt>>
    /\ UNCHANGED <<now, going, ratings, comments, images, reqs, viewer, clientIsGoing, otherVars>>

\* handleGoingToggle after the await: the delete from event_going, or (after
\* the notification permission) the insert into it; an error is shown as a toast
ToggleApply(p) ==
    /\ toggles[p] # "idle"
    /\ toggles' = [toggles EXCEPT ![p] = "idle"]
    /\ renderAt' = now
    /\ IF toggles[p] = "unmark"
       THEN /\ going' = [going EXCEPT ![viewer] = 0]
            /\ clientIsGoing' = FALSE
            /\ toast' = "removed"
       ELSE LET ins == InsertGoing(going, viewer)
            IN /\ going' = ins.tbl
               /\ clientIsGoing' = (IF ins.ok THEN TRUE ELSE clientIsGoing)
               /\ toast' = (IF ins.ok THEN "added" ELSE "error")
    /\ UNCHANGED <<now, ratings, comments, images, reqs, viewer, otherVars>>

Next ==
    \/ Tick
    \/ \E s \in Slots, u \in Users : PostGoing(s, u)
    \/ \E s \in Slots : PostGoingInsert(s)
    \/ \E s \in Slots, u \in Users : DeleteGoing(s, u)
    \/ \E s \in Slots : DeleteGoingDelete(s)
    \/ \E s \in Slots, u \in Users : PostContent(s, "comment", u, 0)
    \/ \E s \in Slots, u \in Users : PostContent(s, "image", u, 0)
    \/ \E s \in Slots, u \in Users, v \in RatingInputs : PostContent(s, "rate", u, v)
    \/ \E s \in Slots : ContentIsGoing(s)
    \/ \E s \in Slots : ContentWindow(s)
    \/ \E s \in Slots : ImageQuota(s)
    \/ \E s \in Slots : CommentInsert(s)
    \/ \E s \in Slots : ImageInsert(s)
    \/ \E s \in Slots : RatingInsert(s)

Spec == Init /\ [][Next]_vars

\* every path to the attendance table: the two going routes of the server
\* and the going button of the client
NextGoing ==
    \/ Tick
    \/ \E s \in Slots, u \in Users : PostGoing(s, u)
    \/ \E s \in Slots : PostGoingInsert(s)
    \/ \E s \in Slots, u \in Users : DeleteGoing(s, u)
    \/ \E s \in Slots : DeleteGoingDelete(s)
    \/ \E u \in Users : ClientLoad(u)
    \/ ClientRender
    \/ \E p \in Presses : TogglePress(p)
    \/ \E p \in Presses : ToggleApply(p)

SpecGoing == Init /\ [][NextGoing]_vars


\* ------------------------------------------------------- the window states

MaxEnd == 5     \* latest end of the events looked at

WindowStates == <<"UPCOMING", "LIVE", "ENDED_INTERACTABLE", "ENDED_LOCKED">>

\* the condition the code tests for state WindowStates[i]: now >= eventStart
\* (handleGoingToggle), isOngoing and canInteract (render), now > sevenDaysAfter
\* (handleRating)
InWindowState(i, startsAt, endsAt, t) ==
    CASE i = 1 -> ~(t >= startsAt)
      [] i = 2 -> isOngoing(startsAt, endsAt, t)
      [] i = 3 -> canInteract(endsAt, t)
      [] i = 4 -> t > sevenDaysAfterEnd(endsAt)

WindowStateAt(startsAt, endsAt, t) ==
    {i \in 1..4 : InWindowState(i, startsAt, endsAt, t)}

InitWindow ==
    /\ InitServer /\ NoClient /\ NoFeed /\ NoQuery /\ NoRead /\ NoOther
    /\ evStart \in 0..(MaxEnd - 1)
    /\ evEnd \in (evStart + 1)..MaxEnd
    /\ winState = WindowStateAt(evStart, evEnd, 0)
    /\ srvOpen = isInInteractionWindow(evEnd, 0)
    /\ cliOpen = canInteract(evEnd, 0)

\* the clock moves forward and the flags are computed again
WindowTick ==
    /\ now < MaxEnd + WindowTicks + 1
    /\ now' = now + 1
    /\ winState' = WindowStateAt(evStart, evEnd, now')
    /\ srvOpen' = isInInteractionWindow(evEnd, now')
    /\ cliOpen' = canInteract(evEnd, now')
    /\ UNCHANGED <<serverVars, clientVars, evStart, evEnd, feedVars, queryVars, readVars, restVars>>

SpecWindow == InitWindow /\ [][WindowTick]_vars


\* ------------------------------------------------------- the feed screens

MaxCalls == 5   \* calls of the fetch function in a behaviour

Calls == 1..MaxCalls
FeedGenres == {"", "techno"}

NoFetch == [stage |-> "unused", filter |-> "", aborted |-> FALSE]

\* the refs a call of the fetch function reads and writes
FeedState ==
    [fetches |-> fetches, ctl |-> abortControllerRef,
     busy |-> isFetchingRef, n |-> initiated]

\* abortControllerRef.current.abort(), when the ref holds a controller
abort(st) ==
    IF st.ctl = 0 THEN st ELSE [st EXCEPT !.fetches[st.ctl].aborted = TRUE]

\* fetchEvents / fetchPastEvents up to its first await, the location loaded:
\* HomeScreen returns when a fetch is in progress, before it aborts anything;
\* otherwise the controller in the ref is aborted, a new one is stored and
\* the query is sent with the filters of the render
fetchEvents(st, filter) ==
    IF feedScreen = "home" /\ st.busy
    THEN [st EXCEPT !.n = @ + 1]
    ELSE LET n == st.n + 1 IN
         [fetches |-> [abort(st).fetches EXCEPT
                          ![n] = [stage |-> "query", filter |-> filter,
                                  aborted |-> FALSE]],
          ctl |-> n, busy |-> (feedScreen = "home"), n |-> n]

\* the effect on the fetch function runs again: the cleanup of the previous
\* run aborts the controller, then the fetch function is called
effect(st, filter) == fetchEvents(abort(st), filter)

\* the finally block: isFetchingRef is cleared and setRefreshing(false), which,
\* when refreshing was true, gives a new fetch function and runs the effect
finallyKeepsFlag(st) == IF refreshing THEN effect(st, selectedGenre) ELSE st
finally(st) ==
    LET s1 == [st EXCEPT !.busy = FALSE] IN
    IF refreshing THEN effect(s1, selectedGenre) ELSE s1

SetFeed(st) ==
    /\ fetches' = st.fetches
    /\ abortControllerRef' = st.ctl
    /\ isFetchingRef' = st.busy
    /\ initiated' = st.n

\* calls are left for k more and for the effect that ends a refresh
Room(k) == initiated + k + (IF refreshing THEN 1 ELSE 0) <= MaxCalls

InitFeed ==
    /\ InitServer /\ NoClient /\ NoWindow /\ NoQuery /\ NoRead /\ NoOther
    /\ feedScreen \in {"home", "past"}
    /\ selectedGenre = "" /\ refreshing = FALSE
    /\ isFetchingRef = FALSE /\ abortControllerRef = 0
    /\ fetches = [i \in Calls |-> NoFetch]
    /\ initiated = 0
    /\ events = [call |-> 0, filter |-> "", rows |-> "none"]

\* the effect runs for the first time
Mount ==
    /\ feedScreen # "none" /\ initiated = 0
    /\ SetFeed(fetchEvents(FeedState, selectedGenre))
    /\ UNCHANGED <<feedScreen, selectedGenre, refreshing, events>>
    /\ UNCHANGED <<now, serverVars, clientVars, windowVars, queryVars, readVars, restVars>>

\* the user selects another genre on HomeScreen
FilterChange(g) ==
    /\ feedScreen = "home" /\ initiated > 0
    /\ g # selectedGenre /\ Room(1)
    /\ selectedGenre' = g
    /\ SetFeed(effect(FeedState, g))
    /\ UNCHANGED <<feedScreen, refreshing, events>>
    /\ UNCHANGED <<now, serverVars, clientVars, windowVars, queryVars, readVars, restVars>>

\* the 30 second interval of HomeScreen fires
Poll ==
    /\ feedScreen = "home" /\ initiated > 0 /\ Room(1)
    /\ SetFeed(fetchEvents(FeedState, selectedGenre))
    /\ UNCHANGED <<feedScreen, selectedGenre, refreshing, events>>
    /\ UNCHANGED <<now, serverVars, clientVars, windowVars, queryVars, readVars, restVars>>

\* onRefresh: setRefreshing(true) and a call of the fetch function; the new
\* refreshing state gives a new fetch function and runs the effect
onRefresh ==
    /\ feedScreen # "none" /\ initiated > 0
    /\ ~refreshing /\ Room(3)
    /\ refreshing' = TRUE
    /\ SetFeed(effect(fetchEvents(FeedState, selectedGenre), selectedGenre))
    /\ UNCHANGED <<feedScreen, selectedGenre, events>>
    /\ UNCHANGED <<now, serverVars, clientVars, windowVars, queryVars, readVars, restVars>>

\* the fetch of call i ran its finally block
Finished(i) ==
    /\ SetFeed(finally([FeedState EXCEPT !.fetches[i].stage = "done"]))
    /\ refreshing' = FALSE

\* what await query gives: { data }, { error } with a message, or an
\* exception with a name and a message (the messages in words)
DataOutcome == [kind |-> "data", name |-> "", message |-> <<>>]

\* the outcomes of a query whose signal was aborted: the error returned or
\* the exception thrown
AbortOutcomes ==
    { [kind |-> "error", name |-> "",
       message |-> <<"AbortError:", "The", "user", "aborted", "a", "request.">>],
      [kind |-> "throw", name |-> "AbortError",
       message |-> <<"The", "operation", "was", "aborted.">>] }

\* the outcomes of a query that failed
FailOutcomes ==
    { [kind |-> "error", name |-> "", message |-> <<"permission", "denied">>],
      [kind |-> "throw", name |-> "TypeError",
       message |-> <<"Network", "request", "failed">>] }

\* message.includes(word)
includes(message, word) == \E k \in 1..Len(message) : message[k] = word

\* error.message?.includes('aborted') for a returned error,
\* err.name === 'AbortError' for an exception
isAbortErrorNever(o) == FALSE
isAbortError(o) ==
    IF o.kind = "error" THEN includes(o.message, "aborted")
    ELSE o.name = "AbortError"

\* await query of call i settles: an abort error returns, another error
\* empties the list, a successful query goes on to resolve the posters
QueryReturn(i) ==
    /\ fetches[i].stage = "query"
    /\ \E o \in IF fetches[i].aborted THEN AbortOutcomes
                ELSE FailOutcomes \cup {DataOutcome} :
          IF o.kind = "data"
          THEN /\ fetches' = [fetches EXCEPT ![i].stage = "posters"]
               /\ UNCHANGED <<abortControllerRef, isFetchingRef, initiated,
                              refreshing, events>>
          ELSE IF isAbortError(o)
          THEN Finished(i) /\ UNCHANGED events
          ELSE /\ events' = [call |-> i, filter |-> fetches[i].filter,
                             rows |-> "none"]
               /\ Finished(i)
    /\ UNCHANGED <<feedScreen, selectedGenre>>
    /\ UNCHANGED <<now, serverVars, clientVars, windowVars, queryVars, readVars, restVars>>

\* the posters (and ratings) of call i are resolved: setEvents
PostersDone(i) ==
    /\ fetches[i].stage = "posters"
    /\ events' = [call |-> i, filter |-> fetches[i].filter, rows |-> "data"]
    /\ Finished(i)
    /\ UNCHANGED <<feedScreen, selectedGenre>>
    /\ UNCHANGED <<now, serverVars, clientVars, windowVars, queryVars, readVars, restVars>>

NextFeed ==
    \/ Mount
    \/ \E g \in FeedGenres : FilterChange(g)
    \/ Poll
    \/ onRefresh
    \/ \E i \in Calls : QueryReturn(i)
    \/ \E i \in Calls : PostersDone(i)

SpecFeed == InitFeed /\ [][NextFeed]_vars

\* HomeScreen with its scheduling: the interval fires again and again while
\* the screen is mounted, and every query and every poster resolution
\* settles.  A poll that finds a fetch in progress only returns at the guard
\* and is left out; the viewer's filter changes and refreshes leave a call
\* of the fetch function for the interval.
InitFeedLive == InitFeed /\ feedScreen = "home"

PollWhenIdle == ~isFetchingRef /\ Poll
FilterChangeLive(g) == Room(2) /\ FilterChange(g)
onRefreshLive == Room(4) /\ onRefresh

NextFeedLive ==
    \/ Mount
    \/ \E g \in FeedGenres : FilterChangeLive(g)
    \/ PollWhenIdle
    \/ onRefreshLive
    \/ \E i \in Calls : QueryReturn(i)
    \/ \E i \in Calls : PostersDone(i)

SpecFeedLive ==
    /\ InitFeedLive /\ [][NextFeedLive]_vars
    /\ WF_vars(Mount) /\ WF_vars(PollWhenIdle)
    /\ \A i \in Calls : WF_vars(QueryReturn(i)) /\ WF_vars(PostersDone(i))


\* ------------------------------------------------------- the general feed

EventIds == {1, 2}
Statuses == {"draft", "published", "cancelled"}
Regions == {"osrednja", "gorenjska"}
\* title and description of a row; events.description is nullable: <<>> for
\* NULL, <<text>> for a text
Texts ==
    {[title |-> <<"R", "a">>, description |-> <<>>],
     [title |-> <<"J", "a", "m">>, description |-> <<>>],
     [title |-> <<"J", "a", "m">>, description |-> << <<"r", "a", "m">> >>]}
Searches == {<<>>, <<"r", "A">>}

\* the rows of the events table: techno events in Ljubljana
EventRows ==
    {[status |-> st, region |-> rg, city |-> "ljubljana", genre |-> "techno",
      title |-> tx.title, description |-> tx.description,
      organizerId |-> organizerId] :
        st \in Statuses, rg \in Regions, tx \in Texts}
\* event 1 ended before the request, event 2 ends at its instant
endsAtOf(e) == now + e - 2

Lower(c) ==
    CASE c = "R" -> "r" [] c = "A" -> "a" [] c = "J" -> "j" [] OTHER -> c
LowerText(t) == [i \in 1..Len(t) |-> Lower(t[i])]
Contains(t, p) ==
    \E i \in 0..(Len(t) - Len(p)) : SubSeq(t, i + 1, i + Len(p)) = p
\* value ILIKE '%search%'
ilike(value, search) == Contains(LowerText(value), LowerText(search))

\* GET /api/events: the conditions pushed for the filters that are given; a
\* NULL description matches no pattern
filterConditions(e, q) ==
    /\ q.genre # "" => evTable[e].genre = q.genre
    /\ q.region # "" => evTable[e].region = q.region
    /\ q.city # "" => evTable[e].city = q.city
    /\ q.search # <<>> =>
         \/ ilike(evTable[e].title, q.search)
         \/ /\ evTable[e].description # <<>>
            /\ ilike(evTable[e].description[1], q.search)

whereConditionsNoStatus(e, q) == filterConditions(e, q)
\* and(...whereConditions), the list starting with status = 'published'
whereConditions(e, q) ==
    evTable[e].status = "published" /\ filterConditions(e, q)

\* the query HomeScreen builds: published, then the organizer's events or the
\* events not ended with the filters selected
homeQuery(e, q) ==
    /\ evTable[e].status = "published"
    /\ IF q.organizerId # ""
       THEN evTable[e].organizerId = q.organizerId
       ELSE /\ endsAtOf(e) >= now
            /\ q.region # "" => evTable[e].region = q.region
            /\ q.genre # "" => evTable[e].genre = q.genre
            /\ q.search # <<>> => ilike(evTable[e].title, q.search)

InitQuery ==
    /\ InitServer /\ NoClient /\ NoWindow /\ NoFeed /\ NoRead /\ NoOther
    /\ evTable \in [EventIds -> EventRows]
    /\ feedQuery = NoRequest /\ dbRows = {} /\ feedRows = {}

\* GET /api/events with valid lat and lng: the rows the query selects are
\* mapped, sorted by distance and returned
GetEvents(q) ==
    /\ feedQuery' = [q EXCEPT !.path = "api"]
    /\ dbRows' = {e \in EventIds : whereConditions(e, q)}
    /\ feedRows' = dbRows'
    /\ UNCHANGED <<now, serverVars, clientVars, windowVars, feedVars, evTable, readVars, restVars>>

\* the query of fetchEvents answers: the rows are sorted and displayed
HomeQuery(q) ==
    /\ feedQuery' = [q EXCEPT !.path = "home"]
    /\ dbRows' = {e \in EventIds : homeQuery(e, q)}
    /\ feedRows' = dbRows'
    /\ UNCHANGED <<now, serverVars, clientVars, windowVars, feedVars, evTable, readVars, restVars>>

ApiRequests ==
    [path : {"none"}, region : {"", "osrednja"},
     city : {"", "kranj"}, genre : {"", "techno"},
     search : Searches, organizerId : {""}]
HomeRequests ==
    [path : {"none"}, region : {"", "osrednja"}, city : {""},
     genre : {"", "techno"}, search : Searches,
     organizerId : {"", organizerId}]

NextQuery ==
    \/ \E q \in ApiRequests : GetEvents(q)
    \/ \E q \in HomeRequests : HomeQuery(q)

SpecQuery == InitQuery /\ [][NextQuery]_vars


\* ------------------------------------------------- the reads of an event

MaxCount == 2   \* most attendance, comment or image rows of the event

Callers == {"anon", "alice", "org", "admin"}
Raters == {"alice", "bob"}
RatingVals == {10, 45}

\* profiles.role of a caller with a session; "org" organizes the event
roleOf(c) ==
    CASE c = "org" -> "organizer" [] c = "admin" -> "admin" [] OTHER -> "user"

RECURSIVE SumRating(_)
SumRating(S) ==
    IF S = {} THEN 0
    ELSE LET x == CHOOSE y \in S : TRUE IN x.rating + SumRating(S \ {x})

\* the NULL row a left join gives for a table with no matching row
NullId == 0
NullRating == [userId |-> "", rating |-> 0]

\* the ids of n rows of a left-joined table, or the one NULL row
Side(n) == IF n = 0 THEN {NullId} ELSE 1..n
RatingSide(rs) == IF rs = {} THEN {NullRating} ELSE rs

\* events left-joined with the given sides and grouped by events.id: the
\* rows of the group of the event
Joined(G, C, I, R) ==
    {[going |-> g, comment |-> c, image |-> i, rating |-> r] :
        g \in G, c \in C, i \in I, r \in R}

\* count(column) and avg(event_ratings.rating) over the rows of the group
countGoing(J) == Cardinality({j \in J : j.going # NullId})
countComments(J) == Cardinality({j \in J : j.comment # NullId})
countImages(J) == Cardinality({j \in J : j.image # NullId})
countRatings(J) == Cardinality({j \in J : j.rating # NullRating})
RECURSIVE sumJoined(_)
sumJoined(J) ==
    IF J = {} THEN 0
    ELSE LET j == CHOOSE y \in J : TRUE IN j.rating.rating + sumJoined(J \ {j})

InitRead ==
    /\ InitServer /\ NoClient /\ NoWindow /\ NoFeed /\ NoQuery /\ NoOther
    /\ rStatus \in Statuses
    /\ rGoing \in 0..MaxCount
    /\ rComments \in 0..MaxCount
    /\ rImages \in 0..MaxCount
    /\ \E f \in [Raters -> RatingVals \cup {0}] :
          rRatings = {[userId |-> u, rating |-> f[u]] : u \in {v \in Raters : f[v] # 0}}
    /\ rWritten = FALSE
    /\ avgRating = nullAvg
    /\ rReply = NoReply

ReadUnchanged ==
    UNCHANGED <<now, serverVars, clientVars, windowVars, feedVars, queryVars,
                rStatus, rGoing, rComments, rImages, rRatings, rWritten,
                avgRating, restVars>>

\* GET /api/events/:id: the event joined with its attendance, rating,
\* comment and image rows; no session is needed and the status is not tested
GetEventDetail(c) ==
    LET J == Joined(Side(rGoing), Side(rComments), Side(rImages),
                    RatingSide(rRatings)) IN
    /\ rReply' = [NoReply EXCEPT
                    !.route = "detail", !.caller = c, !.code = 200,
                    !.status = rStatus,
                    !.goingCount = countGoing(J),
                    !.commentsCount = countComments(J),
                    !.imagesCount = countImages(J),
                    !.avgSum = sumJoined(J), !.avgN = countRatings(J)]
    /\ ReadUnchanged

\* GET /api/events/:id/comments: the comment rows of the event id
GetComments(c) ==
    /\ rReply' = [NoReply EXCEPT !.route = "comments", !.caller = c,
                                 !.code = 200, !.rows = rComments]
    /\ ReadUnchanged

\* GET /api/events/:id/images: the image rows of the event id
GetImages(c) ==
    /\ rReply' = [NoReply EXCEPT !.route = "images", !.caller = c,
                                 !.code = 200, !.rows = rImages]
    /\ ReadUnchanged

\* GET /api/events: the published event joined with its attendance and
\* rating rows
GetFeed(c) ==
    LET J == Joined(Side(rGoing), {NullId}, {NullId}, RatingSide(rRatings)) IN
    /\ rReply' =
         IF rStatus = "published"
         THEN [NoReply EXCEPT
                 !.route = "feed", !.caller = c, !.code = 200,
                 !.status = rStatus, !.rows = 1,
                 !.goingCount = countGoing(J),
                 !.avgSum = sumJoined(J), !.avgN = countRatings(J)]
         ELSE [NoReply EXCEPT !.route = "feed", !.caller = c, !.code = 200,
                              !.rows = 0]
    /\ ReadUnchanged

\* GET /api/organizer/events: a session of an organizer or an admin; the
\* organizer's events (every event for an admin) joined with their
\* attendance, comment, image and rating rows
GetOrganizerEvents(c) ==
    LET J == Joined(Side(rGoing), Side(rComments), Side(rImages),
                    RatingSide(rRatings)) IN
    /\ rReply' =
         IF c = "anon"
         THEN [NoReply EXCEPT !.route = "organizer", !.caller = c, !.code = 401]
         ELSE IF roleOf(c) \notin {"organizer", "admin"}
         THEN [NoReply EXCEPT !.route = "organizer", !.caller = c, !.code = 403]
         ELSE [NoReply EXCEPT
                 !.route = "organizer", !.caller = c, !.code = 200,
                 !.status = rStatus, !.rows = 1,
                 !.goingCount = countGoing(J),
                 !.commentsCount = countComments(J),
                 !.imagesCount = countImages(J),
                 !.ratingsCount = countRatings(J),
                 !.avgSum = sumJoined(J), !.avgN = countRatings(J)]
    /\ ReadUnchanged

\* fetchEventDetail: setAvgRating is called when the select gave a row
setAvgRating(prev, rows) ==
    IF Cardinality(rows) > 0
    THEN [sum |-> SumRating(rows), n |-> Cardinality(rows)]
    ELSE prev

\* fetchEventDetail of the event screen (run at mount and again when the
\* signed-in user changes): the rating rows of the event are selected and
\* averaged when there is one; what the screen then shows is its state
ScreenAvgRating(c) ==
    /\ avgRating' = setAvgRating(avgRating, rRatings)
    /\ rReply' = [NoReply EXCEPT
                    !.route = "screen", !.caller = c, !.code = 200,
                    !.avgSum = avgRating'.sum,
                    !.avgN = avgRating'.n]
    /\ UNCHANGED <<now, serverVars, clientVars, windowVars, feedVars, queryVars,
                   rStatus, rGoing, rComments, rImages, rRatings, rWritten,
                   restVars>>

\* the bodies of PUT /api/ratings/:id: two ratings the validation accepts
\* and one it rejects (hundredths)
PutInputs == {100, 450, 333}

RatingWritten ==
    /\ rWritten' = TRUE
    /\ UNCHANGED <<now, serverVars, clientVars, windowVars, feedVars, queryVars,
                   rStatus, rGoing, rComments, rImages, avgRating, restVars>>
RatingRefused ==
    UNCHANGED <<now, serverVars, clientVars, windowVars, feedVars, queryVars,
                rStatus, rGoing, rComments, rImages, rRatings, rWritten,
                avgRating, restVars>>

\* the role test of PUT /api/ratings/:id without the comparison of the
\* row's user with the session's
putAllowedForAll(c, owner) == TRUE
\* PUT /api/ratings/:id: the row's user, or a profile with the admin role
putAllowed(c, owner) == owner = c \/ roleOf(c) = "admin"

\* PUT /api/ratings/:id for the rating row of user u: session, validation,
\* the row, its owner or an admin, then the update
PutRating(c, u, rating) ==
    LET row == {r \in rRatings : r.userId = u}
        code == IF c = "anon" THEN 401
                ELSE IF ~validateRating(rating) THEN 400
                ELSE IF row = {} THEN 404
                ELSE IF ~putAllowed(c, u) THEN 403
                ELSE 200
    IN  /\ rReply' = [NoReply EXCEPT !.route = "putRating", !.caller = c,
                                     !.target = u, !.code = code]
        /\ IF code = 200
           THEN /\ rRatings' = (rRatings \ row) \cup
                        {[userId |-> u, rating |-> StoredRating(rating)]}
                /\ RatingWritten
           ELSE RatingRefused

\* DELETE /api/ratings/:id/admin for the rating row of user u: session, the
\* admin role, the row, then the delete
DeleteRatingAdmin(c, u) ==
    LET row == {r \in rRatings : r.userId = u}
        code == IF c = "anon" THEN 401
                ELSE IF roleOf(c) # "admin" THEN 403
                ELSE IF row = {} THEN 404
                ELSE 200
    IN  /\ rReply' = [NoReply EXCEPT !.route = "deleteRating", !.caller = c,
                                     !.target = u, !.code = code]
        /\ IF code = 200
           THEN /\ rRatings' = rRatings \ row
                /\ RatingWritten
           ELSE RatingRefused

\* a published event with no comment or image row, read and rated
InitRatings ==
    /\ InitServer /\ NoClient /\ NoWindow /\ NoFeed /\ NoQuery /\ NoOther
    /\ rStatus = "published"
    /\ rGoing \in 0..MaxCount
    /\ rComments = 0
    /\ rImages = 0
    /\ \E f \in [Raters -> RatingVals \cup {0}] :
          rRatings = {[userId |-> u, rating |-> f[u]] : u \in {v \in Raters : f[v] # 0}}
    /\ rWritten = FALSE
    /\ avgRating = nullAvg
    /\ rReply = NoReply

NextRatings ==
    \/ \E c \in Callers : GetEventDetail(c)
    \/ \E c \in Callers : GetFeed(c)
    \/ \E c \in Callers : ScreenAvgRating(c)
    \/ \E c \in Callers, u \in Raters, rating \in PutInputs : PutRating(c, u, rating)
    \/ \E c \in Callers, u \in Raters : DeleteRatingAdmin(c, u)

SpecRatings == InitRatings /\ [][NextRatings]_vars

NextRead ==
    \/ \E c \in Callers : GetEventDetail(c)
    \/ \E c \in Callers : GetComments(c)
    \/ \E c \in Callers : GetImages(c)
    \/ \E c \in Callers : GetFeed(c)
    \/ \E c \in Callers : GetOrganizerEvents(c)
    \/ \E c \in Callers : ScreenAvgRating(c)

SpecRead == InitRead /\ [][NextRead]_vars


\* ------------------------------------------------------ the image uploads

MaxImageRows == 7   \* most image rows of the pair in a behaviour

\* the upload paths of the uploader: two requests of the backend route and
\* two screens
Screens == {"d1", "d2"}
ApiPaths == {"api", "api2"}
UploadPaths == ApiPaths \cup Screens

\* the uploader attends the event and the clock is inside the interaction
\* window: the attendance and window checks of both paths pass
InitImages ==
    /\ InitServer /\ NoClient /\ NoWindow /\ NoFeed /\ NoQuery /\ NoRead
    /\ NoStorage /\ NoLater
    /\ imgRows = 0
    /\ userImageCount = [d \in Screens |-> 0]
    /\ upPc = [a \in UploadPaths |-> "idle"]
    /\ upReply = [by |-> "none", resp |-> "none", rows |-> 0]
    /\ upOverlap = FALSE

ImagesUnchanged ==
    UNCHANGED <<now, serverVars, clientVars, windowVars, feedVars, queryVars,
                readVars, storageVars, laterVars>>

\* no upload is in progress on any path
NoUpload == \A a \in UploadPaths : upPc[a] = "idle"

\* fetchEventDetail of screen d: the rows of the pair are counted and, unless
\* the count fails, kept in userImageCount
LoadImageCount(d) ==
    /\ upPc[d] = "idle"
    /\ \E countOk \in BOOLEAN :
          userImageCount' =
              IF countOk THEN [userImageCount EXCEPT ![d] = imgRows]
              ELSE userImageCount
    /\ UNCHANGED <<imgRows, upPc, upReply, upOverlap>>
    /\ ImagesUnchanged

\* POST /api/events/:id/images up to the quota test: the rows of the pair
\* are counted and MAX_IMAGES_PER_USER or more are refused with 403
PostImagesCount(a) ==
    /\ upPc[a] = "idle"
    /\ IF imgRows >= MAX_IMAGES_PER_USER
       THEN /\ upReply' = [by |-> a, resp |-> "quota", rows |-> imgRows]
            /\ UNCHANGED <<upPc, upOverlap>>
       ELSE /\ upPc' = [upPc EXCEPT ![a] = "store"]
            /\ upReply' = [by |-> a, resp |-> "none", rows |-> imgRows]
            /\ upOverlap' = (upOverlap \/ ~NoUpload)
    /\ UNCHANGED <<imgRows, userImageCount>>
    /\ ImagesUnchanged

\* the file is read, uploaded and the row inserted; a missing or too large
\* file and a failed upload or insert reply with an error and no row
PostImagesStore(a) ==
    /\ upPc[a] = "store"
    /\ upPc' = [upPc EXCEPT ![a] = "idle"]
    /\ \E stored \in BOOLEAN :
          IF stored
          THEN /\ imgRows < MaxImageRows
               /\ imgRows' = imgRows + 1
               /\ upReply' = [by |-> a, resp |-> "created", rows |-> upReply.rows]
          ELSE /\ upReply' = [by |-> a, resp |-> "failed", rows |-> upReply.rows]
               /\ UNCHANGED imgRows
    /\ UNCHANGED <<userImageCount, upOverlap>>
    /\ ImagesUnchanged

\* handleUploadImage of screen d up to the picker: userImageCount >= 5 shows
\* the quota toast
UploadPress(d) ==
    /\ upPc[d] = "idle"
    /\ IF userImageCount[d] >= 5
       THEN /\ upReply' = [by |-> d, resp |-> "quota", rows |-> imgRows]
            /\ UNCHANGED <<upPc, upOverlap>>
       ELSE /\ upPc' = [upPc EXCEPT ![d] = "store"]
            /\ upReply' = [by |-> d, resp |-> "none", rows |-> imgRows]
            /\ upOverlap' = (upOverlap \/ ~NoUpload)
    /\ UNCHANGED <<imgRows, userImageCount>>
    /\ ImagesUnchanged

\* the picked image is uploaded to storage and the row inserted into
\* event_images; then userImageCount is incremented
UploadStore(d) ==
    /\ upPc[d] = "store"
    /\ upPc' = [upPc EXCEPT ![d] = "idle"]
    /\ \E stored \in BOOLEAN :
          IF stored
          THEN /\ imgRows < MaxImageRows
               /\ imgRows' = imgRows + 1
               /\ userImageCount' = [userImageCount EXCEPT ![d] = @ + 1]
               /\ upReply' = [upReply EXCEPT !.resp = "created"]
          ELSE /\ upReply' = [upReply EXCEPT !.resp = "failed"]
               /\ UNCHANGED <<imgRows, userImageCount>>
    /\ UNCHANGED upOverlap
    /\ ImagesUnchanged

\* the uploads are processed one at a time: an upload starts when no other
\* is in progress
SerialPostImages == NoUpload /\ PostImagesCount("api")
SerialUploadPress(d) == NoUpload /\ UploadPress(d)

NextImages ==
    \/ \E d \in Screens : LoadImageCount(d)
    \/ SerialPostImages
    \/ PostImagesStore("api")
    \/ \E d \in Screens : SerialUploadPress(d)
    \/ \E d \in Screens : UploadStore(d)

SpecImages == InitImages /\ [][NextImages]_vars

\* the uploads of the pair overlap: two requests of the backend route and
\* the uploads of one screen, each starting whatever the others do
NextUploads ==
    \/ LoadImageCount("d1")
    \/ \E a \in ApiPaths : PostImagesCount(a)
    \/ \E a \in ApiPaths : PostImagesStore(a)
    \/ UploadPress("d1")
    \/ UploadStore("d1")

SpecUploads == InitImages /\ [][NextUploads]_vars


\* ------------------------------------------------------ resolveStorageUrl

StepS == 30         \* seconds the clock advances by
MaxClockS == 90     \* last clock value
MaxSign == 2        \* createSignedUrl calls in a behaviour

DEFAULT_EXPIRES_IN == 3600
SafetyMarginS == 30

\* a string is the sequence of its parts; null is not a string
null == <<"<null>">>
SignMarker == "/storage/v1/object/sign/bucket/"
PublicMarker == "/storage/v1/object/public/bucket/"
GenericMarker == "/storage/v1/object/bucket/"
SignTokens == <<"?token=1", "?token=2", "?token=3", "?token=4">>
QueryParts == {"?token=0"} \cup {SignTokens[i] : i \in 1..Len(SignTokens)}

\* the values resolveStorageUrl is called with
Values ==
    {null, <<>>, <<"/", "a.jpg">>, <<"/">>,
     <<"http", PublicMarker, "a.jpg">>,
     <<"http", SignMarker, "a.jpg", "?token=0">>,
     <<"http", "/elsewhere/", "a.jpg">>}
\* expiresIn, -1 when it is not given
ExpiresIns == {-1, 90}

startsWithHttp(v) == Len(v) > 0 /\ v[1] = "http"
indexOf(v, part) ==
    IF \E i \in 1..Len(v) : v[i] = part
    THEN CHOOSE i \in 1..Len(v) : v[i] = part /\ \A j \in 1..(i - 1) : v[j] # part
    ELSE -1
\* value.slice(index + marker.length).split("?")[0]
RECURSIVE beforeQuery(_)
beforeQuery(v) ==
    IF v = <<>> \/ Head(v) \in QueryParts THEN <<>>
    ELSE <<Head(v)>> \o beforeQuery(Tail(v))
afterMarker(v, i) == beforeQuery(SubSeq(v, i + 1, Len(v)))
\* value.replace(/^\/+/, "")
RECURSIVE stripSlashes(_)
stripSlashes(v) ==
    IF v # <<>> /\ Head(v) = "/" THEN stripSlashes(Tail(v)) ELSE v

tryExtractBucketPath(v) ==
    IF ~startsWithHttp(v) THEN stripSlashes(v)
    ELSE IF indexOf(v, SignMarker) >= 0 THEN afterMarker(v, indexOf(v, SignMarker))
    ELSE IF indexOf(v, PublicMarker) >= 0 THEN afterMarker(v, indexOf(v, PublicMarker))
    ELSE IF indexOf(v, GenericMarker) >= 0 THEN afterMarker(v, indexOf(v, GenericMarker))
    ELSE null

\* a value or a path that is not null and not the empty string
truthy(v) == v # null /\ v # <<>>

cacheKey(path, exp) == <<exp, path>>
CacheKeys == {cacheKey(<<"a.jpg">>, e) : e \in {DEFAULT_EXPIRES_IN, 90}}
NoEntry == [url |-> null, expiresAtS |-> -1]

\* the URLs the storage service gives for a path
signedUrl(path, n) == <<"http", SignMarker>> \o path \o <<SignTokens[n]>>
publicUrl(path) == <<"http", PublicMarker>> \o path

CallSlots == {"k1", "k2"}
NoCall == [pc |-> "idle", value |-> null, exp |-> 0, path |-> null, n |-> 0]

InitStorage ==
    /\ InitServer /\ NoClient /\ NoWindow /\ NoFeed /\ NoQuery /\ NoRead
    /\ NoUploads /\ NoLater
    /\ nowS = 0
    /\ storageUrlCache = [k \in CacheKeys |-> NoEntry]
    /\ sigCalls = 0
    /\ calls = [k \in CallSlots |-> NoCall]
    /\ sResult = [value |-> null, exp |-> 0, ret |-> null, how |-> "none"]

StorageUnchanged ==
    UNCHANGED <<now, serverVars, clientVars, windowVars, feedVars, queryVars,
                readVars, imageVars, laterVars>>

StorageTick ==
    /\ nowS < MaxClockS
    /\ nowS' = nowS + StepS
    /\ UNCHANGED <<storageUrlCache, sigCalls, calls, sResult>>
    /\ StorageUnchanged

Settled(value, exp, ret, how) ==
    sResult' = [value |-> value, exp |-> exp, ret |-> ret, how |-> how]

cacheValidNoMargin(key) ==
    /\ storageUrlCache[key] # NoEntry
    /\ storageUrlCache[key].expiresAtS > nowS
\* the entry of the key is there and has more than the margin left
cacheValid(key) ==
    /\ storageUrlCache[key] # NoEntry
    /\ storageUrlCache[key].expiresAtS > nowS + SafetyMarginS

\* resolveStorageUrl up to its await: null for no value, a signed URL kept,
\* the cached URL returned, or createSignedUrl called for the path
Resolve(k, value, expiresIn) ==
    LET path == tryExtractBucketPath(value)
        exp == IF expiresIn = -1 THEN DEFAULT_EXPIRES_IN ELSE expiresIn
        key == cacheKey(path, exp) IN
    /\ calls[k].pc = "idle"
    /\ IF ~truthy(value)
       THEN Settled(value, exp, null, "null") /\ UNCHANGED <<calls, sigCalls>>
       ELSE IF startsWithHttp(value) /\ indexOf(value, SignMarker) >= 0
       THEN Settled(value, exp, value, "kept") /\ UNCHANGED <<calls, sigCalls>>
       ELSE IF truthy(path) /\ cacheValid(key)
       THEN /\ Settled(value, exp, storageUrlCache[key].url, "hit")
            /\ UNCHANGED <<calls, sigCalls>>
       ELSE IF truthy(path)
       THEN /\ sigCalls < MaxSign
            /\ sigCalls' = sigCalls + 1
            /\ calls' = [calls EXCEPT ![k] =
                           [pc |-> "sign", value |-> value, exp |-> exp,
                            path |-> path, n |-> sigCalls + 1]]
            /\ UNCHANGED sResult
       ELSE Settled(value, exp, value, "value") /\ UNCHANGED <<calls, sigCalls>>
    /\ UNCHANGED <<nowS, storageUrlCache>>
    /\ StorageUnchanged

\* what a try block with an empty catch makes of the outcome of its call
uncaught(outcome) == outcome
caught(outcome) == IF outcome = "throws" THEN "failed" ELSE outcome

\* createSignedUrl settles: its URL is cached and returned; on an error
\* result or an exception getPublicUrl is tried, its URL cached and returned;
\* otherwise the value is returned
SignSettles(k) ==
    LET c == calls[k]
        key == cacheKey(c.path, c.exp) IN
    /\ c.pc = "sign"
    /\ calls' = [calls EXCEPT ![k] = NoCall]
    /\ \E signing \in {"ok", "failed", "throws"},
          public \in {"ok", "failed", "throws"} :
          IF caught(signing) = "ok"
          THEN /\ storageUrlCache' = [storageUrlCache EXCEPT ![key] =
                     [url |-> signedUrl(c.path, c.n),
                      expiresAtS |-> nowS + c.exp]]
               /\ Settled(c.value, c.exp, signedUrl(c.path, c.n), "signed")
          ELSE IF caught(signing) = "throws"
          THEN /\ Settled(c.value, c.exp, null, "raised")
               /\ UNCHANGED storageUrlCache
          ELSE IF caught(public) = "ok"
          THEN /\ storageUrlCache' = [storageUrlCache EXCEPT ![key] =
                     [url |-> publicUrl(c.path), expiresAtS |-> nowS + c.exp]]
               /\ Settled(c.value, c.exp, publicUrl(c.path), "public")
          ELSE IF caught(public) = "throws"
          THEN /\ Settled(c.value, c.exp, null, "raised")
               /\ UNCHANGED storageUrlCache
          ELSE /\ Settled(c.value, c.exp, c.value, "value")
               /\ UNCHANGED storageUrlCache
    /\ UNCHANGED <<nowS, sigCalls>>
    /\ StorageUnchanged

NextStorage ==
    \/ StorageTick
    \/ \E k \in CallSlots, v \in Values, e \in ExpiresIns : Resolve(k, v, e)
    \/ \E k \in CallSlots : SignSettles(k)

SpecStorage == InitStorage /\ [][NextStorage]_vars

\* ------------------------------------------------- the viewer's location
\* HomeScreen.loadLocation (utils/geo.ts for the table and the city key).
\* Coordinates are in 1/10000 of a degree; strings are sequences of
\* characters.

MaxLoads == 2

LatLng(lat, lng) == [kind |-> "coords", lat |-> lat, lng |-> lng]
\* useState<...|null>(null)
nullLocation == [kind |-> "null", lat |-> 0, lng |-> 0]

ptujKey == <<"p", "t", "u", "j">>
novoMestoKey == <<"n", "o", "v", "o", " ", "m", "e", "s", "t", "o">>
sloveniaKey == <<"s", "l", "o", "v", "e", "n", "i", "a">>

\* the rows of the table that the cities drawn below can reach
CITY_FALLBACK_COORDS ==
    (ptujKey :> LatLng(464203, 158697)) @@
    (novoMestoKey :> LatLng(458011, 151691)) @@
    (sloveniaKey :> LatLng(461512, 149955))

toLowerCase(s) ==
    [i \in 1..Len(s) |->
        CASE s[i] = "P" -> "p" [] s[i] = "N" -> "n" [] s[i] = "M" -> "m"
          [] s[i] = "B" -> "b" [] OTHER -> s[i]]

RECURSIVE trim(_)
trim(s) ==
    IF s = <<>> THEN s
    ELSE IF Head(s) = " " THEN trim(Tail(s))
    ELSE IF s[Len(s)] = " " THEN trim(SubSeq(s, 1, Len(s) - 1))
    ELSE s

\* replace(/\s+/g, " ")
RECURSIVE collapseSpaces(_)
collapseSpaces(s) ==
    IF Len(s) < 2 THEN s
    ELSE IF s[1] = " " /\ s[2] = " " THEN collapseSpaces(Tail(s))
    ELSE <<s[1]>> \o collapseSpaces(Tail(s))

\* getItem returns null for a key that is not set
nullCity == <<"<null>">>

normalizeCityKey(city) ==
    collapseSpaces(toLowerCase(trim(IF city = nullCity THEN <<>> ELSE city)))

\* the selected city of the device: not set, empty, in the table as written,
\* in the table after normalizing, not in the table
SelectedCities ==
    { nullCity, <<>>, ptujKey,
      <<" ", "P", "t", "u", "j", " ">>,
      <<"N", "o", "v", "o", " ", " ", "M", "e", "s", "t", "o">>,
      <<"B", "l", "e", "d">> }

\* what the device can report as its position
GpsCoords == { LatLng(460569, 145058), LatLng(465547, 156459) }

\* the item under LOCATION_STORAGE_KEY: not set, the JSON of a coordinate
\* (all this screen and the onboarding screen ever write), or a text
\* JSON.parse rejects
NoItem == [kind |-> "absent", lat |-> 0, lng |-> 0]
CorruptItem == [kind |-> "corrupt", lat |-> 0, lng |-> 0]
StoredItems ==
    { NoItem, CorruptItem, CITY_FALLBACK_COORDS[ptujKey] } \cup GpsCoords

\* no branch was entered, no prompt made, no call returned at the guard
NoTrace ==
    [cache |-> "none", device |-> "none", city |-> "none", write |-> "none",
     prompts |-> 0, second |-> "none"]

\* the trace of a resolution that starts: the prompts made so far and the
\* calls that returned at the guard are kept
NewTrace == [NoTrace EXCEPT !.prompts = locTrace.prompts,
                            !.second = locTrace.second]

InitLocation ==
    /\ InitServer /\ NoClient /\ NoWindow /\ NoFeed /\ NoQuery /\ NoRead
    /\ NoUploads /\ NoStorage /\ NoRank /\ NoWrites /\ NoMore
    /\ locationLoadedRef = FALSE
    /\ location = nullLocation
    /\ locPc = "idle"
    /\ locStore \in [item : StoredItems, city : SelectedCities]
    /\ locOutcome = "none"
    /\ locCalls = 0
    /\ locTrace = NoTrace

LocationUnchanged ==
    UNCHANGED <<now, serverVars, clientVars, windowVars, feedVars, queryVars,
                readVars, imageVars, storageVars, rankVars, writeVars, moreVars>>

\* loadLocation without its try/catch
noCatch(prev) == [location |-> prev, outcome |-> "raised"]
\* the catch block of loadLocation: the country fallback is set and the
\* call returns
catchLoad(prev) ==
    [location |-> CITY_FALLBACK_COORDS[sloveniaKey], outcome |-> "returned"]

Caught(trace) ==
    /\ location' = catchLoad(location).location
    /\ locOutcome' = catchLoad(location).outcome
    /\ locPc' = "idle"
    /\ locTrace' = trace
    /\ UNCHANGED locStore

\* a call of loadLocation up to its first await; a call after the first
\* returns at the guard, also while the first is outstanding: the trace
\* records whether the screen had a location when such a call returned
loadLocation ==
    /\ locCalls < MaxLoads
    /\ locCalls' = locCalls + 1
    /\ IF locationLoadedRef
       THEN /\ locTrace' =
                 IF locPc = "idle" THEN locTrace
                 ELSE [locTrace EXCEPT !.second =
                          IF location.kind = "coords" THEN "coords" ELSE "null"]
            /\ UNCHANGED <<locationLoadedRef, location, locPc, locStore, locOutcome>>
       ELSE /\ locationLoadedRef' = TRUE
            /\ locPc' = "getItem"
            /\ locOutcome' = "none"
            /\ locTrace' = NewTrace
            /\ UNCHANGED <<location, locStore>>
    /\ LocationUnchanged

\* the screen is mounted again after a resolution: useRef(false) and
\* useState(null) start afresh, the stored item stays, and the effect calls
\* loadLocation
Remount ==
    /\ locationLoadedRef /\ locPc = "idle" /\ locCalls < MaxLoads
    /\ locCalls' = locCalls + 1
    /\ locationLoadedRef' = TRUE
    /\ location' = nullLocation
    /\ locPc' = "getItem"
    /\ locOutcome' = "none"
    /\ locTrace' = NewTrace
    /\ UNCHANGED locStore
    /\ LocationUnchanged

\* AsyncStorage.getItem(LOCATION_STORAGE_KEY) settles
StoredLocationRead ==
    /\ locPc = "getItem"
    /\ \E readOk \in BOOLEAN :
         IF ~readOk \/ locStore.item.kind = "corrupt"
         THEN Caught([locTrace EXCEPT !.cache = "failed"])
         ELSE IF locStore.item.kind = "coords"
         THEN /\ location' = locStore.item
              /\ locOutcome' = "returned"
              /\ locPc' = "idle"
              /\ locTrace' = [locTrace EXCEPT !.cache = "hit"]
              /\ UNCHANGED locStore
         ELSE /\ locPc' = "permission"
              /\ locTrace' = [locTrace EXCEPT !.cache = "miss"]
              /\ UNCHANGED <<location, locStore, locOutcome>>
    /\ UNCHANGED <<locationLoadedRef, locCalls>>
    /\ LocationUnchanged

\* requestForegroundPermissionsAsync settles
PermissionSettles ==
    /\ locPc = "permission"
    /\ \E status \in {"granted", "denied", "error"} :
         LET asked == [locTrace EXCEPT !.prompts = @ + 1] IN
         CASE status = "granted" ->
                /\ locPc' = "position"
                /\ locTrace' = asked
                /\ UNCHANGED <<location, locStore, locOutcome>>
           [] status = "denied" ->
                /\ locPc' = "getCity"
                /\ locTrace' = [asked EXCEPT !.device = "denied"]
                /\ UNCHANGED <<location, locStore, locOutcome>>
           [] OTHER -> Caught([asked EXCEPT !.device = "error"])
    /\ UNCHANGED <<locationLoadedRef, locCalls>>
    /\ LocationUnchanged

\* getCurrentPositionAsync settles
PositionSettles ==
    /\ locPc = "position"
    /\ \/ \E loc \in GpsCoords :
            /\ location' = loc
            /\ locPc' = "setItem"
            /\ locTrace' = [locTrace EXCEPT !.device = "ok"]
            /\ UNCHANGED <<locStore, locOutcome>>
       \/ Caught([locTrace EXCEPT !.device = "failed"])
    /\ UNCHANGED <<locationLoadedRef, locCalls>>
    /\ LocationUnchanged

\* AsyncStorage.getItem(SELECTED_CITY_KEY) settles
SelectedCityRead ==
    /\ locPc = "getCity"
    /\ \/ LET selectedKey == normalizeCityKey(locStore.city)
               inTable == selectedKey # <<>>
                            /\ selectedKey \in DOMAIN CITY_FALLBACK_COORDS
           IN
            /\ location' =
                 IF inTable THEN CITY_FALLBACK_COORDS[selectedKey]
                 ELSE CITY_FALLBACK_COORDS[sloveniaKey]
            /\ locPc' = "setItem"
            /\ locTrace' = [locTrace EXCEPT
                               !.city = IF inTable THEN "table" ELSE "country"]
            /\ UNCHANGED <<locStore, locOutcome>>
       \/ Caught([locTrace EXCEPT !.city = "failed"])
    /\ UNCHANGED <<locationLoadedRef, locCalls>>
    /\ LocationUnchanged

\* AsyncStorage.setItem(LOCATION_STORAGE_KEY, ...) settles
StoredLocationWritten ==
    /\ locPc = "setItem"
    /\ \/ /\ locStore' = [locStore EXCEPT !.item = location]
          /\ locOutcome' = "returned"
          /\ locPc' = "idle"
          /\ locTrace' = [locTrace EXCEPT !.write = "ok"]
          /\ UNCHANGED location
       \/ Caught([locTrace EXCEPT !.write = "failed"])
    /\ UNCHANGED <<locationLoadedRef, locCalls>>
    /\ LocationUnchanged

NextLocation ==
    \/ loadLocation \/ Remount \/ StoredLocationRead \/ PermissionSettles
    \/ PositionSettles \/ SelectedCityRead \/ StoredLocationWritten

SpecLocation == InitLocation /\ [][NextLocation]_vars

\* ------------------------------------------------------ distance ranking
\* HomeScreen.fetchEvents (the map and sort after the query) and the sort of
\* GET /api/events. A JavaScript number is a record: a finite value, an
\* infinity, NaN, or undefined for a missing property.

MaxEvents == 3
MaxRuns == 2

num(v) == [k |-> "num", v |-> v]
Infinity == [k |-> "inf", v |-> 0]
NegInfinity == [k |-> "neginf", v |-> 0]
NaN == [k |-> "nan", v |-> 0]
undefined == [k |-> "undefined", v |-> 0]

\* a ?? b
nullish(a, b) == IF a.k = "undefined" THEN b ELSE a

\* a - b of two numbers (undefined converts to NaN)
minus(a, b) ==
    CASE a.k \in {"nan", "undefined"} \/ b.k \in {"nan", "undefined"} -> NaN
      [] a.k = "num" /\ b.k = "num" -> num(a.v - b.v)
      [] a.k = b.k -> NaN
      [] a.k = "inf" \/ b.k = "neginf" -> Infinity
      [] OTHER -> NegInfinity

Abs(n) == IF n < 0 THEN 0 - n ELSE n

\* calculateDistance: the great-circle distance, here the sum of the
\* coordinate differences
calculateDistance(lat1, lng1, lat2, lng2) ==
    num(Abs(lat2 - lat1) + Abs(lng2 - lng1))

\* the values a lat or lng column of a fetched row can hold
Field(t, v) == [t |-> t, v |-> v]
nullField == Field("null", 0)

\* toFiniteNumber: a finite number, the parse of a numeric string, else NaN
toFiniteNumber(value) ==
    CASE value.t = "number" -> num(value.v)
      [] value.t = "numeric string" -> num(value.v)
      [] OTHER -> NaN

coordsForCity(city) ==
    LET key == normalizeCityKey(city) IN
    IF key # <<>> /\ key \in DOMAIN CITY_FALLBACK_COORDS
    THEN CITY_FALLBACK_COORDS[key] ELSE nullLocation

resolveEventCoords(event) ==
    LET lat == toFiniteNumber(event.lat)
        lng == toFiniteNumber(event.lng)
    IN  IF lat.k = "num" /\ lng.k = "num" THEN LatLng(lat.v, lng.v)
        ELSE coordsForCity(event.city)

\* the rows a query can return, apart from their position: coordinates as
\* numbers or numeric strings, one coordinate missing, both missing with a
\* city of the table, with a city outside it, with no city
EventShapes ==
    { [lat |-> Field("number", 460569), lng |-> Field("number", 145058), city |-> <<"B", "l", "e", "d">>],
      [lat |-> Field("numeric string", 460569), lng |-> Field("numeric string", 145058), city |-> ptujKey],
      [lat |-> Field("number", 465547), lng |-> Field("number", 156459), city |-> nullCity],
      [lat |-> Field("number", 465547), lng |-> nullField, city |-> <<"B", "l", "e", "d">>],
      [lat |-> nullField, lng |-> nullField, city |-> <<" ", "P", "t", "u", "j", " ">>],
      [lat |-> nullField, lng |-> nullField, city |-> <<"B", "l", "e", "d">>],
      [lat |-> Field("text", 0), lng |-> Field("text", 0), city |-> nullCity] }

\* the rows of the backend's table: lat and lng are NOT NULL numerics written
\* from JSON numbers
ServerShapes ==
    { e \in EventShapes : e.lat.t = "numeric string" /\ e.lng.t = "numeric string" }
      \cup { [lat |-> Field("numeric string", 465547), lng |-> Field("numeric string", 156459), city |-> nullCity],
             [lat |-> Field("numeric string", 462397), lng |-> Field("numeric string", 152677), city |-> nullCity] }

EventLists(shapes) ==
    UNION { [1..n -> shapes] : n \in 1..MaxEvents }

\* the map of fetchEvents: the row with its position in the query result
\* and its distance
withDistance(list, from) ==
    [i \in 1..Len(list) |->
        LET coords == resolveEventCoords(list[i]) IN
        [id |-> i,
         distance |-> IF coords.kind = "null" THEN undefined
                      ELSE calculateDistance(from.lat, from.lng,
                                             coords.lat, coords.lng)]]

\* the map of GET /api/events: parseFloat of the two columns
enrichedEvents(list, from) ==
    [i \in 1..Len(list) |->
        [id |-> i,
         distance |-> calculateDistance(from.lat, from.lng,
                                        list[i].lat.v, list[i].lng.v)]]

\* the comparator of fetchEvents without the ?? operands
compareAsIs(a, b) == minus(a.distance, b.distance)
\* the comparator of fetchEvents
compareDistance(a, b) ==
    minus(nullish(a.distance, Infinity), nullish(b.distance, Infinity))
\* the comparator of GET /api/events
compareServer(a, b) == minus(a.distance, b.distance)

compare(by, a, b) ==
    IF by = "client" THEN compareDistance(a, b) ELSE compareServer(a, b)

\* Array.prototype.sort calls the comparator and takes NaN as +0; the result
\* is the sign it acts on
SortCompare(by, a, b) ==
    LET v == compare(by, a, b) IN
    CASE v.k = "nan" -> 0
      [] v.k = "inf" -> 1
      [] v.k = "neginf" -> -1
      [] v.v > 0 -> 1
      [] v.v < 0 -> -1
      [] OTHER -> 0

\* Array.prototype.sort is stable: an element goes after every element
\* already placed that does not compare greater than it
RECURSIVE insert(_, _, _)
insert(by, placed, e) ==
    IF placed = <<>> THEN <<e>>
    ELSE IF SortCompare(by, placed[Len(placed)], e) > 0
         THEN Append(insert(by, SubSeq(placed, 1, Len(placed) - 1), e),
                     placed[Len(placed)])
         ELSE Append(placed, e)

RECURSIVE sortFrom(_, _, _)
sortFrom(by, placed, rest) ==
    IF rest = <<>> THEN placed
    ELSE sortFrom(by, insert(by, placed, Head(rest)), Tail(rest))

sort(by, list) == sortFrom(by, <<>>, list)

InitRank ==
    /\ InitServer /\ NoClient /\ NoWindow /\ NoFeed /\ NoQuery /\ NoRead
    /\ NoUploads /\ NoStorage /\ NoLocation /\ NoWrites /\ NoMore
    /\ rankViewer \in GpsCoords
    /\ rankBy \in {"client", "server"}
    /\ rankInput \in EventLists(IF rankBy = "client" THEN EventShapes ELSE ServerShapes)
    /\ ranked = <<>>
    /\ rankRuns = 0

RankUnchanged ==
    UNCHANGED <<now, serverVars, clientVars, windowVars, feedVars, queryVars,
                readVars, imageVars, storageVars, locVars, writeVars, moreVars>>

\* fetchEvents of the home screen with the viewer location set: the rows of
\* the query are given their distance and sorted
RankOnClient ==
    /\ rankBy = "client" /\ rankRuns < MaxRuns
    /\ ranked' = sort("client", withDistance(rankInput, rankViewer))
    /\ rankRuns' = rankRuns + 1
    /\ UNCHANGED <<rankViewer, rankInput, rankBy>>
    /\ RankUnchanged

\* GET /api/events: the rows of the query are enriched and sorted
RankOnServer ==
    /\ rankBy = "server" /\ rankRuns < MaxRuns
    /\ ranked' = sort("server", enrichedEvents(rankInput, rankViewer))
    /\ rankRuns' = rankRuns + 1
    /\ UNCHANGED <<rankViewer, rankInput, rankBy>>
    /\ RankUnchanged

NextRank == RankOnClient \/ RankOnServer

SpecRank == InitRank /\ [][NextRank]_vars

\* --------------------------------------------- updates and deletions
\* The event, its organizer and the rows that reference it: PUT and DELETE
\* /api/events/:id, DELETE /api/comments/:id and /api/images/:id with their
\* admin variants, the admin hard delete of an event and the ban of a user
\* (one statement per step), and the inserts that can run beside them.

Titles == {"t0", "t1"}
RowOwners == {"alice", "bob"}
Profiles == {"alice", "bob", "org", "admin"}
BanTargets == {"alice", "org"}
RowKinds == {"going", "comment", "image", "rating"}

NoEvent == [exists |-> FALSE, organizerId |-> "", title |-> "", ended |-> FALSE]
NoHandler == [route |-> "none", caller |-> "anon", target |-> "", step |-> 0]
NoInsert == [kind |-> "none", user |-> "", pc |-> "idle"]

\* profiles.role of the caller as the handlers read it: no profile row, no
\* admin role
isAdminNow(c) == c \in oProfiles /\ roleOf(c) = "admin"

\* a foreign key declared without ON DELETE CASCADE and not enforced
keepRows(owners, keep) == owners
\* references(..., { onDelete: 'cascade' }): the rows whose parent is left
cascade(owners, keep) == owners \cap keep
cascadeRatings(keep) == {r \in rRatings : r.userId \in keep}

\* the foreign keys of an inserted row: the event and the profile exist
foreignKeysHold(u) == oEvent.exists /\ u \in oProfiles

WriteFrame ==
    UNCHANGED <<now, serverVars, clientVars, windowVars, feedVars, queryVars,
                rStatus, rGoing, rComments, rImages, rWritten, avgRating,
                imageVars, storageVars, locVars, rankVars, moreVars>>

WriteReply(route, c, target, code) ==
    rReply' = [NoReply EXCEPT !.route = route, !.caller = c,
                              !.target = target, !.code = code]

\* delete from events where id = ...: the row and, by the cascades, every
\* row that references it
DeleteEventRow ==
    /\ oEvent' = NoEvent
    /\ oGoing' = cascade(oGoing, {})
    /\ oComments' = cascade(oComments, {})
    /\ oImages' = cascade(oImages, {})
    /\ rRatings' = cascadeRatings({})

\* PUT /api/events/:id: session, the event, its organizer or an admin, the
\* times, then the update
PutEvent(c, title, timesOk) ==
    LET code == IF c = "anon" THEN 401
                ELSE IF ~oEvent.exists THEN 404
                ELSE IF oEvent.organizerId # c /\ ~isAdminNow(c) THEN 403
                ELSE IF ~timesOk THEN 400
                ELSE 200
    IN  /\ WriteReply("putEvent", c, oEvent.organizerId, code)
        /\ oEvent' = IF code = 200 /\ title # ""
                     THEN [oEvent EXCEPT !.title = title] ELSE oEvent
        /\ UNCHANGED <<oProfiles, oGoing, oComments, oImages, rRatings,
                       oHandler, oInsert, oRaced>>
        /\ WriteFrame

\* DELETE /api/events/:id: session, the event, its organizer or an admin,
\* not ended unless an admin, then the delete
DeleteEvent(c) ==
    LET code == IF c = "anon" THEN 401
                ELSE IF ~oEvent.exists THEN 404
                ELSE IF ~isAdminNow(c) /\ oEvent.organizerId # c THEN 403
                ELSE IF ~isAdminNow(c) /\ oEvent.ended THEN 403
                ELSE 200
    IN  /\ WriteReply("deleteEvent", c, oEvent.organizerId, code)
        /\ IF code = 200 THEN DeleteEventRow
           ELSE UNCHANGED <<oEvent, oGoing, oComments, oImages, rRatings>>
        /\ UNCHANGED <<oProfiles, oHandler, oInsert, oRaced>>
        /\ WriteFrame

\* DELETE /api/comments/:id for the comment of user u: session, the row, its
\* author or an admin, then the delete
DeleteComment(c, u) ==
    LET code == IF c = "anon" THEN 401
                ELSE IF u \notin oComments THEN 404
                ELSE IF u # c /\ ~isAdminNow(c) THEN 403
                ELSE 200
    IN  /\ WriteReply("deleteComment", c, u, code)
        /\ oComments' = IF code = 200 THEN oComments \ {u} ELSE oComments
        /\ UNCHANGED <<oEvent, oProfiles, oGoing, oImages, rRatings,
                       oHandler, oInsert, oRaced>>
        /\ WriteFrame

\* DELETE /api/comments/:id/admin: session, the admin role, the row
DeleteCommentAdmin(c, u) ==
    LET code == IF c = "anon" THEN 401
                ELSE IF ~isAdminNow(c) THEN 403
                ELSE IF u \notin oComments THEN 404
                ELSE 200
    IN  /\ WriteReply("deleteCommentAdmin", c, u, code)
        /\ oComments' = IF code = 200 THEN oComments \ {u} ELSE oComments
        /\ UNCHANGED <<oEvent, oProfiles, oGoing, oImages, rRatings,
                       oHandler, oInsert, oRaced>>
        /\ WriteFrame

\* DELETE /api/images/:id for the image of user u
DeleteImage(c, u) ==
    LET code == IF c = "anon" THEN 401
                ELSE IF u \notin oImages THEN 404
                ELSE IF u # c /\ ~isAdminNow(c) THEN 403
                ELSE 200
    IN  /\ WriteReply("deleteImage", c, u, code)
        /\ oImages' = IF code = 200 THEN oImages \ {u} ELSE oImages
        /\ UNCHANGED <<oEvent, oProfiles, oGoing, oComments, rRatings,
                       oHandler, oInsert, oRaced>>
        /\ WriteFrame

\* DELETE /api/images/:id/admin
DeleteImageAdmin(c, u) ==
    LET code == IF c = "anon" THEN 401
                ELSE IF ~isAdminNow(c) THEN 403
                ELSE IF u \notin oImages THEN 404
                ELSE 200
    IN  /\ WriteReply("deleteImageAdmin", c, u, code)
        /\ oImages' = IF code = 200 THEN oImages \ {u} ELSE oImages
        /\ UNCHANGED <<oEvent, oProfiles, oGoing, oComments, rRatings,
                       oHandler, oInsert, oRaced>>
        /\ WriteFrame

\* handleDeleteComment / handleDeleteImage of the event screen for the row
\* of user u: a signed-in user who is the author or has the admin role, then
\* the delete
ScreenDelete(kind, c, u) ==
    LET code == IF c = "anon" THEN 401
                ELSE IF roleOf(c) # "admin" /\ c # u THEN 403
                ELSE 200
    IN  /\ u \in (IF kind = "comment" THEN oComments ELSE oImages)
        /\ WriteReply(IF kind = "comment" THEN "handleDeleteComment"
                      ELSE "handleDeleteImage", c, u, code)
        /\ oComments' = IF code = 200 /\ kind = "comment"
                        THEN oComments \ {u} ELSE oComments
        /\ oImages' = IF code = 200 /\ kind = "image"
                      THEN oImages \ {u} ELSE oImages
        /\ UNCHANGED <<oEvent, oProfiles, oGoing, rRatings,
                       oHandler, oInsert, oRaced>>
        /\ WriteFrame

\* DELETE /api/events/:id/admin and POST /api/users/:id/ban up to their
\* first delete: session, the admin role, the event or the user
AdminStart(route, c, target) ==
    LET found == IF route = "deleteEventAdmin" THEN oEvent.exists
                 ELSE target \in oProfiles
        code == IF c = "anon" THEN 401
                ELSE IF ~isAdminNow(c) THEN 403
                ELSE IF ~found THEN 404
                ELSE 0
    IN  /\ oHandler.route = "none"
        /\ IF code = 0
           THEN /\ oHandler' = [route |-> route, caller |-> c,
                                target |-> target, step |-> 1]
                /\ UNCHANGED rReply
           ELSE /\ WriteReply(route, c, target, code)
                /\ UNCHANGED oHandler
        /\ UNCHANGED <<oEvent, oProfiles, oGoing, oComments, oImages, rRatings,
                       oInsert, oRaced>>
        /\ WriteFrame

\* DELETE /api/events/:id/admin: the next of its five deletes (attendance,
\* comments, images, ratings of the event, the event)
AdminDeleteStep ==
    /\ oHandler.route = "deleteEventAdmin"
    /\ CASE oHandler.step = 1 ->
              /\ oGoing' = {}
              /\ UNCHANGED <<oEvent, oComments, oImages, rRatings>>
         [] oHandler.step = 2 ->
              /\ oComments' = {}
              /\ UNCHANGED <<oEvent, oGoing, oImages, rRatings>>
         [] oHandler.step = 3 ->
              /\ oImages' = {}
              /\ UNCHANGED <<oEvent, oGoing, oComments, rRatings>>
         [] oHandler.step = 4 ->
              /\ rRatings' = {}
              /\ UNCHANGED <<oEvent, oGoing, oComments, oImages>>
         [] OTHER -> DeleteEventRow
    /\ IF oHandler.step = 5
       THEN /\ oHandler' = NoHandler
            /\ WriteReply("deleteEventAdmin", oHandler.caller, oHandler.target, 200)
       ELSE /\ oHandler' = [oHandler EXCEPT !.step = @ + 1]
            /\ UNCHANGED rReply
    /\ UNCHANGED <<oProfiles, oInsert, oRaced>>
    /\ WriteFrame

\* POST /api/users/:id/ban: the next of its deletes that touch these tables
\* (the user's attendance, comments, images, ratings, the events the user
\* organizes, the profile); the deletes of follows and reports lie between
BanStep ==
    LET u == oHandler.target IN
    /\ oHandler.route = "ban"
    /\ CASE oHandler.step = 1 ->
              /\ oGoing' = oGoing \ {u}
              /\ UNCHANGED <<oEvent, oProfiles, oComments, oImages, rRatings>>
         [] oHandler.step = 2 ->
              /\ oComments' = oComments \ {u}
              /\ UNCHANGED <<oEvent, oProfiles, oGoing, oImages, rRatings>>
         [] oHandler.step = 3 ->
              /\ oImages' = oImages \ {u}
              /\ UNCHANGED <<oEvent, oProfiles, oGoing, oComments, rRatings>>
         [] oHandler.step = 4 ->
              /\ rRatings' = {r \in rRatings : r.userId # u}
              /\ UNCHANGED <<oEvent, oProfiles, oGoing, oComments, oImages>>
         [] oHandler.step = 5 ->
              /\ IF oEvent.exists /\ oEvent.organizerId = u
                 THEN DeleteEventRow
                 ELSE UNCHANGED <<oEvent, oGoing, oComments, oImages, rRatings>>
              /\ UNCHANGED oProfiles
         [] OTHER ->
              /\ oProfiles' = oProfiles \ {u}
              /\ oGoing' = cascade(oGoing, oProfiles \ {u})
              /\ oComments' = cascade(oComments, oProfiles \ {u})
              /\ oImages' = cascade(oImages, oProfiles \ {u})
              /\ rRatings' = cascadeRatings(oProfiles \ {u})
              /\ IF oEvent.exists /\ oEvent.organizerId = u
                 THEN oEvent' = NoEvent ELSE UNCHANGED oEvent
    /\ IF oHandler.step = 6
       THEN /\ oHandler' = NoHandler
            /\ WriteReply("ban", oHandler.caller, oHandler.target, 200)
       ELSE /\ oHandler' = [oHandler EXCEPT !.step = @ + 1]
            /\ UNCHANGED rReply
    /\ UNCHANGED <<oInsert, oRaced>>
    /\ WriteFrame

\* POST /api/events/:id/going, /comments, /images, /ratings by user u up to
\* the insert: the event is found and, but for going, the user attends
InsertCheck(kind, u) ==
    /\ oInsert.pc = "idle"
    /\ IF ~oEvent.exists
       THEN /\ WriteReply(kind, u, u, 404) /\ UNCHANGED oInsert
       ELSE IF kind # "going" /\ u \notin oGoing
       THEN /\ WriteReply(kind, u, u, 403) /\ UNCHANGED oInsert
       ELSE /\ oInsert' = [kind |-> kind, user |-> u, pc |-> "insert"]
            /\ UNCHANGED rReply
    /\ UNCHANGED <<oEvent, oProfiles, oGoing, oComments, oImages, rRatings,
                   oHandler, oRaced>>
    /\ WriteFrame

\* the insert of the row: the database refuses a row whose event or user
\* does not exist, and a second rating of the user for the event
InsertRow ==
    LET u == oInsert.user
        kind == oInsert.kind
        ok == /\ foreignKeysHold(u)
              /\ kind = "rating" => \A r \in rRatings : r.userId # u
    IN  /\ oInsert.pc = "insert"
        /\ oInsert' = NoInsert
        /\ WriteReply(kind, u, u, IF ok THEN 201 ELSE 500)
        /\ oGoing' = IF ok /\ kind = "going" THEN oGoing \cup {u} ELSE oGoing
        /\ oComments' = IF ok /\ kind = "comment" THEN oComments \cup {u} ELSE oComments
        /\ oImages' = IF ok /\ kind = "image" THEN oImages \cup {u} ELSE oImages
        /\ rRatings' = IF ok /\ kind = "rating"
                       THEN rRatings \cup {[userId |-> u, rating |-> 45]}
                       ELSE rRatings
        /\ oRaced' = (oRaced \/ (ok /\ oHandler.step > 1))
        /\ UNCHANGED <<oEvent, oProfiles, oHandler>>
        /\ WriteFrame

\* the event of organizer "org" with a comment and a rating of two users and
\* an image of one; no request is in progress
InitOwner ==
    /\ InitServer /\ NoClient /\ NoWindow /\ NoFeed /\ NoQuery
    /\ NoUploads /\ NoStorage /\ NoLocation /\ NoRank /\ NoMore
    /\ rStatus = "none" /\ rGoing = 0 /\ rComments = 0 /\ rImages = 0
    /\ rWritten = FALSE /\ avgRating = nullAvg /\ rReply = NoReply
    /\ rRatings = {[userId |-> "alice", rating |-> 10],
                   [userId |-> "bob", rating |-> 45]}
    /\ \E ended \in BOOLEAN :
          oEvent = [exists |-> TRUE, organizerId |-> "org", title |-> "t0",
                    ended |-> ended]
    /\ oProfiles = Profiles
    /\ oGoing = RowOwners
    /\ oComments = RowOwners
    /\ oImages = {"alice"}
    /\ oHandler = NoHandler
    /\ oInsert = NoInsert
    /\ oRaced = FALSE

NextOwner ==
    \/ \E c \in Callers, title \in Titles \cup {""}, timesOk \in BOOLEAN :
          PutEvent(c, title, timesOk)
    \/ \E c \in Callers : DeleteEvent(c)
    \/ \E c \in Callers, u \in Raters, rating \in PutInputs : PutRating(c, u, rating)
    \/ \E c \in Callers, u \in RowOwners : DeleteComment(c, u)
    \/ \E c \in Callers, u \in RowOwners : DeleteCommentAdmin(c, u)
    \/ \E c \in Callers, u \in RowOwners : DeleteImage(c, u)
    \/ \E c \in Callers, u \in RowOwners : DeleteImageAdmin(c, u)
    \/ \E kind \in {"comment", "image"}, c \in Callers, u \in RowOwners :
          ScreenDelete(kind, c, u)
    \/ \E c \in Callers : AdminStart("deleteEventAdmin", c, "org")
    \/ AdminDeleteStep

SpecOwner == InitOwner /\ [][NextOwner]_vars

\* the event of organizer "org" with rows of bob; alice and bob make requests
\* that insert rows while events and users are deleted
InitDelete ==
    /\ InitServer /\ NoClient /\ NoWindow /\ NoFeed /\ NoQuery
    /\ NoUploads /\ NoStorage /\ NoLocation /\ NoRank /\ NoMore
    /\ rStatus = "none" /\ rGoing = 0 /\ rComments = 0 /\ rImages = 0
    /\ rWritten = FALSE /\ avgRating = nullAvg /\ rReply = NoReply
    /\ rRatings = {[userId |-> "bob", rating |-> 10]}
    /\ oEvent = [exists |-> TRUE, organizerId |-> "org", title |-> "t0",
                 ended |-> FALSE]
    /\ oProfiles = Profiles
    /\ oGoing \in {{"bob"}, RowOwners}
    /\ oComments = {"bob"}
    /\ oImages = {"bob"}
    /\ oHandler = NoHandler
    /\ oInsert = NoInsert
    /\ oRaced = FALSE

NextDelete ==
    \/ \E c \in {"alice", "org"} : DeleteEvent(c)
    \/ \E c \in {"alice", "admin"} : AdminStart("deleteEventAdmin", c, "org")
    \/ \E c \in {"alice", "admin"}, u \in BanTargets : AdminStart("ban", c, u)
    \/ AdminDeleteStep
    \/ BanStep
    \/ \E kind \in RowKinds, u \in RowOwners : InsertCheck(kind, u)
    \/ InsertRow

SpecDelete == InitDelete /\ [][NextDelete]_vars

\* -------------------------------------------------------- rating validation
\* POST /api/events/:id/ratings, PUT /api/ratings/:id and the insert of the
\* event screen applied to one rating value.

\* body.rating in hundredths: below, at and above the ends of the range, and
\* values of the range with and without a second decimal
ValidateInputs == {0, 99, 100, 333, 450, 455, 500, 501, 550}

RateCallers == Raters \cup {"anon"}

\* the stars of the event screen
Stars == 1..5

\* POST /api/events/:id/ratings by caller c: the session, validateRating, the
\* event, the caller's event_going row, the window, then the insert under the
\* unique index (event_id, user_id).  exists, isGoing and inWindow are what
\* the selects of events and event_going and the clock give.
PostRatings(c, rating, exists, isGoing, inWindow) ==
    LET row == {r \in rRatings : r.userId = c}
        code == IF c = "anon" THEN 401
                ELSE IF ~validateRating(rating) THEN 400
                ELSE IF ~exists THEN 404
                ELSE IF ~isGoing THEN 403
                ELSE IF ~inWindow THEN 403
                ELSE IF row # {} THEN 409
                ELSE 200
    IN  /\ rReply' = [NoReply EXCEPT !.route = "postRating", !.caller = c,
                                     !.target = c, !.code = code]
        /\ IF code = 200
           THEN /\ rRatings' = rRatings \cup
                        {[userId |-> c, rating |-> StoredRating(rating)]}
                /\ RatingWritten
           ELSE RatingRefused

\* handleRating of the event screen, its insert into event_ratings: one of
\* the five stars, refused by the unique index when the user has a row
handleRatingInsert(u, stars) ==
    /\ IF \E r \in rRatings : r.userId = u
       THEN UNCHANGED rRatings
       ELSE rRatings' = rRatings \cup
                {[userId |-> u, rating |-> StoredRating(stars * 100)]}
    /\ rReply' = [NoReply EXCEPT !.route = "handleRating", !.caller = u,
                                 !.target = u]
    /\ RatingWritten

InitValidate ==
    /\ InitServer /\ NoClient /\ NoWindow /\ NoFeed /\ NoQuery
    /\ NoUploads /\ NoStorage /\ NoLocation /\ NoRank /\ NoWrites /\ NoAttendees
    /\ rStatus = "published" /\ rGoing = 0 /\ rComments = 0 /\ rImages = 0
    /\ rRatings = {}
    /\ rWritten = FALSE
    /\ avgRating = nullAvg
    /\ rReply = NoReply
    /\ rateInput \in ValidateInputs

NextValidate ==
    \/ \E c \in RateCallers, exists, isGoing, inWindow \in BOOLEAN :
          PostRatings(c, rateInput, exists, isGoing, inWindow)
    \/ \E c \in RateCallers, u \in Raters : PutRating(c, u, rateInput)
    \/ \E u \in Raters, stars \in Stars : handleRatingInsert(u, stars)

SpecValidate == InitValidate /\ [][NextValidate]_vars

\* ------------------------------------------------------------ attendee list
\* GET /api/events/:id/attendees and the attendee screen, which reads the
\* event_going table itself.

Attendees == {"alice", "bob"}

\* "anon" is a request without a session, a visitor who is not logged in
AttendeeCallers == Attendees \cup {"anon"}

NoAttendeeReply == [caller |-> "none", code |-> 0, isGoing |-> FALSE, rows |-> {}]

NoAttendeeScreen ==
    [viewer |-> "none", loading |-> FALSE, isGoing |-> FALSE, attendees |-> {}]

AttendeesFrame ==
    UNCHANGED <<now, serverVars, clientVars, windowVars, feedVars, queryVars,
                readVars, imageVars, storageVars, locVars, rankVars, writeVars,
                rateInput>>

\* POST /api/events/:id/going of an event that has not ended: the row is
\* inserted unless the user has one
AttendeePostGoing(u) ==
    /\ u \notin aGoing
    /\ aGoing' = aGoing \cup {u}
    /\ UNCHANGED <<aReply, aScreen>>
    /\ AttendeesFrame

\* DELETE /api/events/:id/going: the user's row is deleted
AttendeeDeleteGoing(u) ==
    /\ u \in aGoing
    /\ aGoing' = aGoing \ {u}
    /\ UNCHANGED <<aReply, aScreen>>
    /\ AttendeesFrame

\* GET /api/events/:id/attendees: 401 without a session, 403 without a row of
\* the caller, otherwise the users of all the rows of the event
GetAttendees(c) ==
    /\ aReply' =
          IF c = "anon"
          THEN [caller |-> c, code |-> 401, isGoing |-> FALSE, rows |-> {}]
          ELSE IF c \notin aGoing
          THEN [caller |-> c, code |-> 403, isGoing |-> FALSE, rows |-> {}]
          ELSE [caller |-> c, code |-> 200, isGoing |-> TRUE, rows |-> aGoing]
    /\ UNCHANGED <<aGoing, aScreen>>
    /\ AttendeesFrame

\* handleViewAttendees: the login modal for a visitor, otherwise the attendee
\* screen is pushed and starts loading
handleViewAttendees(c) ==
    /\ c # "anon"
    /\ aScreen' = [viewer |-> c, loading |-> TRUE, isGoing |-> FALSE,
                   attendees |-> {}]
    /\ UNCHANGED <<aGoing, aReply>>
    /\ AttendeesFrame

\* fetchAttendees: the select of event_going by event id with the profiles
\* joined; an error of the select leaves the empty list.  isGoing records
\* whether the viewer had a row when the select ran.
fetchAttendees(failed) ==
    /\ aScreen.loading
    /\ aScreen' = [aScreen EXCEPT
                     !.loading = FALSE,
                     !.isGoing = aScreen.viewer \in aGoing,
                     !.attendees = IF failed THEN {} ELSE aGoing]
    /\ UNCHANGED <<aGoing, aReply>>
    /\ AttendeesFrame

InitAttendees ==
    /\ InitServer /\ NoClient /\ NoWindow /\ NoFeed /\ NoQuery /\ NoRead
    /\ NoUploads /\ NoStorage /\ NoLocation /\ NoRank /\ NoWrites /\ NoRateInput
    /\ aGoing \in SUBSET Attendees
    /\ aReply = NoAttendeeReply
    /\ aScreen = NoAttendeeScreen

NextAttendees ==
    \/ \E u \in Attendees : AttendeePostGoing(u)
    \/ \E u \in Attendees : AttendeeDeleteGoing(u)
    \/ \E c \in AttendeeCallers : GetAttendees(c)
    \/ \E c \in AttendeeCallers : handleViewAttendees(c)
    \/ \E failed \in BOOLEAN : fetchAttendees(failed)

SpecAttendees == InitAttendees /\ [][NextAttendees]_vars

\* ------------------------------------------------------------------ claims

Created(r) == r.kind \in ContentKinds /\ r.pc = "done" /\ r.resp = "created"

\* a step in which slot s runs its insert
Inserts(s) == reqs[s].pc = "insert" /\ reqs'[s].pc = "done"

RowsChange == comments' # comments \/ images' # images \/ ratings' # ratings

\* C1: for each (event, user) pair at most one rating row exists whatever the
\* interleaving of that user's POST ratings requests; of two submissions that
\* reach the insert one is accepted and the other is rejected with the
\* already-rated conflict, and the stored value is the accepted one's.
C1_OneRatingPerPair ==
    /\ \A u \in Users : Len(ratings[u]) <= 1
    /\ \A s \in Slots :
         LET r == reqs[s]
         IN /\ (r.kind = "rate" /\ r.pc = "done" /\ r.resp = "created")
                 => (r.val \div 10) * 10 = r.val /\ ratings[r.user] = <<r.val \div 10>>
            /\ (r.kind = "rate" /\ r.pc = "done" /\ r.resp = "already-rated")
                 => Len(ratings[r.user]) = 1
    /\ \A s1, s2 \in Slots :
         (s1 # s2 /\ reqs[s1].user = reqs[s2].user
            /\ reqs[s1].kind = "rate" /\ reqs[s2].kind = "rate"
            /\ reqs[s1].pc = "done" /\ reqs[s2].pc = "done"
            /\ reqs[s1].resp = "created")
         => reqs[s2].resp # "created"

\* two submissions of alice with different values have both been answered:
\* one accepted, one rejected as already rated
C1_Witness ==
    \E s1, s2 \in Slots :
        /\ reqs[s1].kind = "rate" /\ reqs[s1].user = "alice" /\ reqs[s1].resp = "created"
        /\ reqs[s2].kind = "rate" /\ reqs[s2].user = "alice" /\ reqs[s2].resp = "already-rated"
        /\ reqs[s1].pc = "done" /\ reqs[s2].pc = "done"
        /\ reqs[s1].val # reqs[s2].val
        /\ Len(ratings["alice"]) = 1

\* C2: for a user who is not the organizer, every mark-going request is
\* answered with success, also the duplicate that hits the unique index, and
\* when its insert has run exactly one attendance row exists for the pair; no
\* state holds two rows for a pair.
C2_MarkGoingIdempotent ==
    [][/\ \A u \in Users : going'[u] <= 1
       /\ \A s \in Slots :
            (reqs[s].kind = "going" /\ Inserts(s) /\ reqs[s].user # organizerId)
            => going'[reqs[s].user] = 1 /\ reqs'[s].resp = "ok"]_vars

\* both slots hold an answered mark-going request of alice and one row exists
C2_Witness ==
    /\ \A s \in Slots :
         reqs[s].kind = "going" /\ reqs[s].user = "alice"
            /\ reqs[s].pc = "done" /\ reqs[s].resp = "ok"
    /\ going["alice"] = 1

\* the window check of request r has run and has let it through
PassedWindow(r) ==
    /\ r.kind \in ContentKinds
    /\ \/ r.pc \in {"quota", "insert"}
       \/ r.pc = "done" /\ r.resp \in {"created", "failed", "quota"}

\* C3 as stated: a comment, a rating or an image is created only when the
\* window check read a clock value with end < now <= end + 168h; a request
\* checked at now <= end or at now > end + 168h is denied.
C3_WindowStrictAfterEnd ==
    \A s \in Slots :
        PassedWindow(reqs[s])
        => EndsAt < reqs[s].at /\ reqs[s].at <= EndsAt + WindowTicks

\* C3 amended: a comment, a rating or an image is created only by a request
\* whose window check read a clock value with end <= now <= end + 168h; a
\* request checked at now < end or at now > end + 168h is denied with the
\* window reason, and a denied request creates no record.
C3_WindowFromEnd ==
    [][/\ \A s \in Slots :
            /\ PassedWindow(reqs'[s])
                 => EndsAt <= reqs'[s].at /\ reqs'[s].at <= EndsAt + WindowTicks
            /\ (reqs[s].kind \in ContentKinds /\ reqs[s].pc = "window" /\ reqs'[s] # reqs[s]
                  /\ (now < EndsAt \/ now > EndsAt + WindowTicks))
                 => reqs'[s].pc = "done" /\ reqs'[s].resp = "window" /\ ~RowsChange
       /\ RowsChange
            => \E s \in Slots : /\ Inserts(s) /\ PassedWindow(reqs[s])
                                 /\ reqs'[s].resp \in {"created", "already-rated"}]_vars

\* a comment checked at now = end exactly has been created, and a request
\* checked after the window has been denied
C3_Witness ==
    \E s1, s2 \in Slots :
        /\ Created(reqs[s1]) /\ reqs[s1].kind = "comment" /\ reqs[s1].at = EndsAt
        /\ comments[reqs[s1].user] = 1
        /\ reqs[s2].kind \in ContentKinds /\ reqs[s2].pc = "done" /\ reqs[s2].resp = "window"
        /\ reqs[s2].at > EndsAt + WindowTicks

\* C4: a comment, a rating or an image is created only by a request whose
\* attendance select found a row for (event, user); a request whose select
\* found none is denied with the not-going reason, whatever the clock, and
\* creates no record.
C4_RequiresGoing ==
    [][/\ \A s \in Slots :
            /\ (reqs[s].kind \in ContentKinds /\ reqs[s].pc = "isGoing" /\ reqs'[s] # reqs[s])
                 => /\ reqs'[s].isGoing = (going[reqs[s].user] >= 1)
                    /\ going[reqs[s].user] = 0
                         => reqs'[s].resp = "not-going" /\ reqs'[s].pc = "done" /\ ~RowsChange
            /\ (reqs'[s].kind \in ContentKinds /\ reqs'[s].pc \in {"window", "quota", "insert"})
                 => reqs'[s].isGoing
            /\ Created(reqs'[s]) => reqs'[s].isGoing
       /\ RowsChange
            => \E s \in Slots : Inserts(s) /\ reqs[s].kind \in ContentKinds /\ reqs[s].isGoing]_vars

\* alice was denied a comment as not going, before the event has ended, and
\* later created one
C4_Witness ==
    \E s1, s2 \in Slots :
        /\ reqs[s1].kind = "comment" /\ reqs[s1].pc = "done" /\ reqs[s1].resp = "not-going"
        /\ reqs[s1].user = "alice"
        /\ Created(reqs[s2]) /\ reqs[s2].user = "alice"

\* C5 as stated: no attendance row is created at an instant after the end of
\* the event.
C5_NoGoingAfterEnd ==
    [][\A u \in Users : going'[u] > going[u] => now <= EndsAt]_vars

\* C6 as stated: an attendance row is removed only while now < start.
C6_NoUnmarkAfterStart ==
    [][\A u \in Users : going'[u] < going[u] => now < StartsAt]_vars

\* C7 as stated: no attendance row has the organizer of its event as user.
C7_NoOrganizerGoing == going[organizerId] = 0

Lowest(S) == CHOOSE i \in S : \A j \in S : i <= j

\* C8: for an event with end > start, as the clock moves forward every
\* instant is in exactly one of UPCOMING, LIVE, ENDED_INTERACTABLE,
\* ENDED_LOCKED, the state never moves back, and each interaction predicate
\* (isInInteractionWindow, canInteract) turns true only from an instant not
\* after the end and turns false only past end + 168h, so it is false, then
\* true, then false.
C8_WindowStatesForward ==
    [][/\ Cardinality(winState) = 1 /\ Cardinality(winState') = 1
       /\ Lowest(winState') >= Lowest(winState)
       /\ (~srvOpen /\ srvOpen') => now <= evEnd
       /\ (~cliOpen /\ cliOpen') => now <= evEnd
       /\ (srvOpen /\ ~srvOpen') => now' > evEnd + WindowTicks
       /\ (cliOpen /\ ~cliOpen') => now' > evEnd + WindowTicks
       /\ (now' > evEnd /\ now' <= evEnd + WindowTicks) => srvOpen' /\ cliOpen'
       /\ now' > evEnd + WindowTicks => ~srvOpen' /\ ~cliOpen']_vars

\* the sweep of an event that starts after the first instant has reached
\* ENDED_LOCKED with both predicates false again
C8_Witness ==
    /\ evStart > 0 /\ evEnd > evStart + 1
    /\ now > evEnd + WindowTicks
    /\ WindowStates[Lowest(winState)] = "ENDED_LOCKED" /\ ~srvOpen /\ ~cliOpen

\* C9: the displayed list is set only from the fetch of the most recent
\* call of the fetch function (last request initiated wins).
C9_LastInitiatedWins ==
    [][events' # events => events'.call = initiated]_vars

\* C10: whatever the filters of a feed request, every row of the response
\* is a published event, and the response holds exactly the rows the query
\* selected: no draft or cancelled row reaches the handler.
C10_FeedOnlyPublished ==
    feedQuery.path # "none" =>
        /\ \A e \in dbRows : evTable[e].status = "published"
        /\ feedRows = dbRows

\* a request with the region, genre and search filters answered with a
\* published event while a draft or cancelled event matches the same filters
C10_Witness ==
    /\ feedQuery.path = "api"
    /\ feedQuery.region # "" /\ feedQuery.genre # "" /\ feedQuery.search # <<>>
    /\ feedRows # {}
    /\ \E e \in EventIds :
          /\ evTable[e].status # "published"
          /\ filterConditions(e, feedQuery)
          /\ e \notin feedRows

\* C11: a reply of the detail, comments or images read to a caller who is
\* neither the organizer nor an admin carries no data of a draft or
\* cancelled event.
C11_NoUnpublishedRead ==
    (/\ rReply.route \in {"detail", "comments", "images"}
     /\ rReply.caller \in {"anon", "alice"}
     /\ rStatus # "published") => rReply.code # 200

\* C12: with the uploads of the pair processed one at a time, the pair never
\* has more than MAX_IMAGES_PER_USER image rows.
C12_AtMostFiveImages == imgRows <= MAX_IMAGES_PER_USER

\* the call of slot k goes from the lookup to createSignedUrl
StartsSigning(k) == calls[k].pc = "idle" /\ calls'[k].pc = "sign"
\* the call of slot k settles after createSignedUrl
EndsSigning(k) == calls[k].pc = "sign" /\ calls'[k].pc = "idle"
\* a call settles without an await
SettlesAtOnce == sResult' # sResult /\ calls' = calls
\* the value reaches the cache lookup with a path
Looked(v) ==
    /\ truthy(v)
    /\ ~(startsWithHttp(v) /\ indexOf(v, SignMarker) >= 0)
    /\ truthy(tryExtractBucketPath(v))
MoreThanMarginLeft(path, exp) ==
    storageUrlCache[cacheKey(path, exp)].expiresAtS > nowS + SafetyMarginS

\* C13: a call for a key whose entry has more than 30 seconds left returns
\* the entry's URL, makes no signing call and leaves the cache alone; a call
\* for a key whose entry is absent or has 30 seconds or less left makes a
\* signing call, and when that call succeeds its URL is returned and becomes
\* the entry, with expiry = the clock when the signing call returned + TTL.
C13_CacheWithinMargin ==
    [][/\ (SettlesAtOnce /\ Looked(sResult'.value)) =>
            /\ MoreThanMarginLeft(tryExtractBucketPath(sResult'.value), sResult'.exp)
            /\ sResult'.ret =
                 storageUrlCache[cacheKey(tryExtractBucketPath(sResult'.value),
                                          sResult'.exp)].url
            /\ sigCalls' = sigCalls
            /\ storageUrlCache' = storageUrlCache
       /\ \A k \in CallSlots :
            /\ StartsSigning(k) =>
                 /\ ~MoreThanMarginLeft(calls'[k].path, calls'[k].exp)
                 /\ sigCalls' = sigCalls + 1
            /\ (EndsSigning(k) /\ sResult'.how = "signed") =>
                 /\ sResult'.ret = signedUrl(calls[k].path, calls[k].n)
                 /\ storageUrlCache'[cacheKey(calls[k].path, calls[k].exp)] =
                      [url |-> sResult'.ret, expiresAtS |-> nowS + calls[k].exp]]_vars

\* a second call, made later and with more than 30 seconds left, returned the
\* URL of the one signing call
C13_Witness ==
    /\ sResult.how = "hit" /\ sResult.exp = 90
    /\ nowS > 0 /\ sigCalls = 1
    /\ sResult.ret = signedUrl(<<"a.jpg">>, 1)

\* no path can be taken from the value
NoPath(v) == ~truthy(v) \/ ~truthy(tryExtractBucketPath(v))

C15_AlwaysACoordinate ==
    (locPc = "idle" /\ locCalls > 0) =>
        /\ locOutcome = "returned"
        /\ location.kind = "coords"

\* with the stored item absent, the permission denied and a selected city
\* that is not in the table, the call ended with the country coordinate
C15_Witness ==
    /\ locPc = "idle" /\ locOutcome = "returned"
    /\ locStore.city = <<"B", "l", "e", "d">>
    /\ location = CITY_FALLBACK_COORDS[sloveniaKey]
    /\ locStore.item = location

\* the row at position i of the input has no usable lat/lng pair and no
\* city of the table
Usable(field) == field.t \in {"number", "numeric string"}
Undetermined(i) ==
    /\ ~(Usable(rankInput[i].lat) /\ Usable(rankInput[i].lng))
    /\ normalizeCityKey(rankInput[i].city) \notin DOMAIN CITY_FALLBACK_COORDS

\* list holds every row of the input once, rows of known distance in
\* ascending distance, every undetermined row after them, and rows of equal
\* or undetermined distance in the order of the input
Ranked(list) ==
    /\ Len(list) = Len(rankInput)
    /\ {list[i].id : i \in 1..Len(list)} = 1..Len(rankInput)
    /\ \A i \in 1..Len(list) :
          Undetermined(list[i].id) <=> list[i].distance.k # "num"
    /\ \A i, j \in 1..Len(list) : i < j =>
          /\ ~(Undetermined(list[i].id) /\ ~Undetermined(list[j].id))
          /\ (~Undetermined(list[i].id) /\ ~Undetermined(list[j].id)) =>
                list[i].distance.v <= list[j].distance.v
          /\ \/ Undetermined(list[i].id) /\ Undetermined(list[j].id)
             \/ list[i].distance = list[j].distance
             => list[i].id < list[j].id

\* C16: a ranking puts the rows in ascending distance with the undetermined
\* rows last and ties in input order, and ranking the same input for the same
\* viewer again gives the same list.
C16_RankedByDistance ==
    [][rankRuns' # rankRuns =>
         /\ Ranked(ranked')
         /\ rankRuns > 0 => ranked' = ranked]_vars

\* the home screen ranked a list twice in which an undetermined row came
\* first and two rows after it were at the same distance
C16_Witness ==
    /\ rankBy = "client" /\ rankRuns = 2 /\ Len(ranked) = 3
    /\ Undetermined(1)
    /\ ranked[1].id = 2 /\ ranked[2].id = 3 /\ ranked[3].id = 1
    /\ ranked[1].distance = ranked[2].distance

\* C17: a reply that reports the average rating of the event reports none
\* when the event has no rating row and otherwise the mean of the rating
\* rows that exist when the read is made, each once, whatever the attendance,
\* comment and image rows (avgSum / avgN = sum of the rows / their number).
C17_MeanOfRatingRows ==
    (rReply.route \in {"feed", "detail", "organizer", "screen"}
        /\ rReply.code = 200 /\ rReply.rows # 0) =>
        /\ rReply.avgN = 0 <=> rRatings = {}
        /\ rReply.avgSum * Cardinality(rRatings) = SumRating(rRatings) * rReply.avgN

\* C18: every counter of a feed, detail or organizer reply equals the number
\* of rows of its kind that reference the event, whatever the rows of the
\* other kinds.
C18_CountersEqualRows ==
    (rReply.route \in {"feed", "detail", "organizer"}
        /\ rReply.code = 200 /\ rReply.rows # 0) =>
        /\ rReply.goingCount = rGoing
        /\ rReply.route # "feed" =>
              /\ rReply.commentsCount = rComments
              /\ rReply.imagesCount = rImages
        /\ rReply.route = "organizer" =>
              rReply.ratingsCount = Cardinality(rRatings)

\* the caller of the reply is the owner of the record the request named, or
\* an admin
ByOwnerOrAdmin(r) == r.caller = r.target \/ roleOf(r.caller) = "admin"
EventRoutes == {"putEvent", "deleteEvent", "deleteEventAdmin"}
CommentRoutes == {"deleteComment", "deleteCommentAdmin", "handleDeleteComment"}
ImageRoutes == {"deleteImage", "deleteImageAdmin", "handleDeleteImage"}
OwnedRoutes == EventRoutes \cup CommentRoutes \cup ImageRoutes \cup {"putRating"}

C20_RowsReferenceExisting ==
    /\ (oGoing \cup oComments \cup oImages) \subseteq oProfiles
    /\ \A r \in rRatings : r.userId \in oProfiles
    /\ ~oEvent.exists =>
          oGoing = {} /\ oComments = {} /\ oImages = {} /\ rRatings = {}

\* the admin hard delete of the event completed after a row had been
\* inserted during it
C20_Witness ==
    /\ rReply.route = "deleteEventAdmin" /\ rReply.code = 200
    /\ oRaced /\ ~oEvent.exists

\* the endpoint alone: a reply that lists attendees went to a caller with a
\* session and a row, and every other reply lists nobody
AttendeesEndpointGated ==
    /\ aReply.code = 200 => aReply.caller \in Attendees /\ aReply.isGoing
    /\ aReply.code # 200 => aReply.rows = {}

\* C21: the attendee list is shown only to a caller with a session who has an
\* attendance row of the event when the list is read, by the endpoint and by
\* the attendee screen alike; a caller without a row receives no identities.
C21_AttendeesOnlyToGoing ==
    /\ AttendeesEndpointGated
    /\ aScreen.attendees # {} => aScreen.isGoing

\* a value of [1.0, 5.0] that equals itself rounded to one decimal: a whole
\* number of tenths from 10 to 50
WholeTenths(r) == \E k \in 10..50 : r = k * 10

\* C22: submit and update accept a rating only if it is in [1.0, 5.0] and
\* equals itself rounded to one decimal; every other value is answered with
\* the validation error whatever the tables hold, an accepted value is stored
\* as sent, and every stored rating is a whole number of tenths from 1.0 to 5.0.
C22_RatingValidated ==
    /\ (rReply.route \in {"postRating", "putRating"} /\ rReply.caller # "anon")
          => /\ rReply.code = 400 <=> ~WholeTenths(rateInput)
             /\ rReply.code = 200
                   => [userId |-> rReply.target, rating |-> rateInput \div 10]
                          \in rRatings
    /\ \A r \in rRatings : r.rating \in 10..50

\* 4.55 is in the range and is refused while the caller has a rating row
C22_Witness ==
    /\ rReply.route = "putRating" /\ rReply.code = 400 /\ rateInput = 455
    /\ \E r \in rRatings : r.userId = rReply.target /\ r.userId = rReply.caller

\* a finished content request that was refused after its attendance row was
\* found, the clock of its window check being t
DeniedInWindowCheck(s) ==
    /\ reqs[s].kind \in ContentKinds /\ reqs[s].pc = "done"
    /\ reqs[s].isGoing /\ reqs[s].resp # "created"

\* C23: a denial names the precondition that fails: a request checked before
\* the event's end is refused with another reason (window-not-open) than a
\* request checked more than 168 hours after it (window-closed), and
\* already-rated is reported only when the user has a rating row.
C23_SpecificReason ==
    \A s, t \in Slots :
        /\ (/\ DeniedInWindowCheck(s) /\ reqs[s].at < EndsAt
            /\ DeniedInWindowCheck(t) /\ reqs[t].at > EndsAt + WindowTicks)
              => reqs[s].resp # reqs[t].resp
        /\ (reqs[s].pc = "done" /\ reqs[s].resp = "already-rated")
              => Len(ratings[reqs[s].user]) >= 1

C25_RouteOverlapOnly ==
    (imgRows > MAX_IMAGES_PER_USER /\ \A d \in Screens : userImageCount[d] = 0)
        => upOverlap

\* C25: the quota is a count test followed by a separate insert, so uploads
\* that overlap can each pass it; the pair has more than five image rows
\* only when uploads overlapped.
C25_OverFiveOnlyByOverlap ==
    imgRows > MAX_IMAGES_PER_USER => upOverlap

\* a resolution has ended
Resolved == locPc = "idle" /\ locOutcome = "returned"

\* the selected city of the device is a row of the table
SelectedCityInTable ==
    LET selectedKey == normalizeCityKey(locStore.city)
    IN  selectedKey # <<>> /\ selectedKey \in DOMAIN CITY_FALLBACK_COORDS

\* the permission was denied, no item was cached and the selected city is in
\* the table: the resolution ends with the city's coordinate
C26_DeniedGivesCity ==
    (/\ Resolved /\ locTrace.cache = "miss" /\ locTrace.device = "denied"
     /\ locTrace.city = "table" /\ locTrace.write = "ok")
        => location = CITY_FALLBACK_COORDS[normalizeCityKey(locStore.city)]

\* C26: the branches are tried in the order cache, device, city table,
\* country, a denial or a failed read advancing to the next: with nothing
\* cached, the device read failing (permission denied, or the read itself
\* failing) and the selected city in the table, the resolution ends with the
\* city's coordinate, not the country's.
C26_CityBeforeCountry ==
    (/\ Resolved /\ locTrace.cache = "miss"
     /\ locTrace.device \in {"denied", "failed"}
     /\ SelectedCityInTable
     /\ locTrace.city # "failed" /\ locTrace.write # "failed")
        => location = CITY_FALLBACK_COORDS[normalizeCityKey(locStore.city)]

\* C27: a resolution that ended through any branch, the fallback after an
\* error included, has its coordinate stored under the location key, so the
\* next resolution takes it from the cache without a prompt.
C27_ResultPersisted ==
    Resolved => locStore.item = location

\* C28: a call made while a resolution is outstanding does not return
\* without a coordinate: it has the location of the resolution in flight.
C28_SecondCallGetsCoordinate ==
    locTrace.second # "null"

C30_ServerAndGuardsAgree ==
    /\ goingCanInteract(evEnd, now) = srvOpen
    /\ guardAllows(evEnd, now) = srvOpen

\* C30: at every instant, the ends of the window included, the server check,
\* the canInteract of the going-events list, the render flag of the event
\* screen and the guards of its handlers all allow or all refuse.
C30_WindowCopiesAgree ==
    /\ goingCanInteract(evEnd, now) = srvOpen
    /\ guardAllows(evEnd, now) = srvOpen
    /\ cliOpen = srvOpen

====
